---- MODULE Spec2Model ----
(***************************************************************************)
(* A model of the hemul 6502 core (hemul/src/cpu/mod.rs) and the devices   *)
(* behind it.  The Cpu struct is one record, every fallible helper returns *)
(* a result record (st = "ok", an error kind, or "panic"), and `?` is the  *)
(* early return of that record with the state reached so far.              *)
(***************************************************************************)
EXTENDS Integers, Sequences, FiniteSets, TLC

VARIABLES
    cpu,              \* the Cpu struct: registers, flags, mode, addr (the substrate)
    overflow_checks,  \* build profile: TRUE = u16 `+`/`-` panic on overflow, FALSE = they wrap
    halted,           \* a panic has unwound the caller
    last,             \* the call made by the last step and what it returned
    prev,             \* the Cpu struct as it was before that call
    last2,            \* ghost: the call before the last one
    prev2,            \* ghost: the Cpu struct as it was before the call of last2
    frames,           \* ghost: return frames pushed by JSR / delivered interrupts, innermost first
    ret,              \* ghost: the frame consumed by the last step when it was RTS or RTI
    cyc,              \* ghost: cycles of the last instruction fetched (c), ticks spent on it (t)
    loop,             \* tick_until_nop: its count, where it stands (st), ghost: the ticks it made
    osc,              \* the Oscillator struct: last_pass, delta, devices
    clock,            \* the last reading of Instant::now()
    twin,             \* a second Cpu run in Mode::Fast beside cpu, and what its last tick returned
    steps             \* calls made so far

vars == <<cpu, overflow_checks, halted, last, prev, last2, prev2, frames, ret, cyc, loop,
          osc, clock, twin, steps>>

----------------------------------------------------------------------------
(* Constants of cpu/mod.rs *)

SP_PAGE == 1
SP_ADDR == 255
NMIB == 65530
RESB == 65532
IRQB == 65534

C_FLAG == 64
Z_FLAG == 32
I_FLAG == 16
D_FLAG == 8
B_FLAG == 4
V_FLAG == 2
N_FLAG == 1

(* Widths of lib.rs: Byte = u8, Word = u16 *)
ByteMod == 256
WordMod == 65536

----------------------------------------------------------------------------
(* Bit arithmetic on bytes *)

Bit(b, i) == (b \div (2 ^ i)) % 2

BitAnd(a, b) ==
    LET s[i \in 0..8] == IF i = 8 THEN 0 ELSE (2 ^ i) * (Bit(a, i) * Bit(b, i)) + s[i + 1]
    IN  s[0]

BitOr(a, b) ==
    LET s[i \in 0..8] ==
            IF i = 8 THEN 0
            ELSE (2 ^ i) * (IF Bit(a, i) + Bit(b, i) > 0 THEN 1 ELSE 0) + s[i + 1]
    IN  s[0]

BitXor(a, b) ==
    LET s[i \in 0..8] == IF i = 8 THEN 0 ELSE (2 ^ i) * ((Bit(a, i) + Bit(b, i)) % 2) + s[i + 1]
    IN  s[0]

wrapping_add(a, b) == (a + b) % ByteMod
wrapping_sub(a, b) == (a - b + ByteMod) % ByteMod

----------------------------------------------------------------------------
(* cpu/address.rs *)

\* mutant of WordOfFull: the first byte taken as the page (big endian)
WordOfFull_page_first(addr, page) == ((addr * 256) % WordMod) + page

\* From<Address> for Word, Address::Full(addr, page): (page << 8) | addr
WordOfFull(addr, page) == ((page * 256) % WordMod) + addr

\* From<Address> for Word, Address::Zero(addr): page is 0
WordOfZero(addr) == WordOfFull(addr, 0)

\* From<Word> for Address: Full(value & 0xFF, value >> 8)
AddrOf(value) == value % 256
PageOf(value) == value \div 256

----------------------------------------------------------------------------
(* memory.rs: Memory(Vec<Byte>).  `data` keeps the non-zero cells only, so  *)
(* that two equal memories are equal values; every other cell below `len`  *)
(* reads 0, as in the zero-filled Vec.                                     *)

MemRead(m, a) == IF a \in DOMAIN m.data THEN m.data[a] ELSE 0

MemWrite(m, a, v) ==
    LET dom == IF v = 0 THEN DOMAIN m.data \ {a} ELSE DOMAIN m.data \cup {a}
    IN  [m EXCEPT !.data = [x \in dom |-> IF x = a THEN v ELSE m.data[x]]]

\* Addressable::inside_bounds for Memory
inside_bounds(m, a) == m.len > a

----------------------------------------------------------------------------
(* Results.  val carries the Ok value, or the payload of the error.        *)

Ok(c, v) == [cpu |-> c, st |-> "ok", val |-> v]
Err(c, e, v) == [cpu |-> c, st |-> e, val |-> v]
Panic(c) == [cpu |-> c, st |-> "panic", val |-> 0]

\* `?` : continue with F on Ok, return the error otherwise (r is bound to its
\* value once, as the Result is in the code)
Then(r, F(_)) == CHOOSE y \in {IF x.st = "ok" THEN F(x) ELSE x : x \in {r}} : TRUE

\* u16 `a + b` and `a - b`: a panic with overflow checks, a wrap without
u16_add(c, a, b) ==
    IF a + b < WordMod THEN Ok(c, a + b)
    ELSE IF overflow_checks THEN Panic(c) ELSE Ok(c, (a + b) % WordMod)

u16_sub(c, a, b) ==
    IF a >= b THEN Ok(c, a - b)
    ELSE IF overflow_checks THEN Panic(c) ELSE Ok(c, a - b + WordMod)

----------------------------------------------------------------------------
(* cpu/instructions.rs: the opcode table *)

Op(o, m, c) == [op |-> o, mode |-> m, cycles |-> c]

\* TryFrom<Byte> for Op: Ok(Op(op, mode, cycles)) or Err(BadOpCode(value))
Decode(c, value) ==
    LET known ==
            CASE
         value = 169 -> Op("Lda", "Immediate", 2)
      [] value = 165 -> Op("Lda", "ZeroPage", 3)
      [] value = 181 -> Op("Lda", "ZeroPageX", 4)
      [] value = 173 -> Op("Lda", "Absolute", 4)
      [] value = 189 -> Op("Lda", "AbsoluteX", 4)
      [] value = 185 -> Op("Lda", "AbsoluteY", 4)
      [] value = 161 -> Op("Lda", "IndexedIndirect", 6)
      [] value = 177 -> Op("Lda", "IndirectIndexed", 5)
      [] value = 162 -> Op("Ldx", "Immediate", 2)
      [] value = 166 -> Op("Ldx", "ZeroPage", 3)
      [] value = 182 -> Op("Ldx", "ZeroPageY", 4)
      [] value = 174 -> Op("Ldx", "Absolute", 4)
      [] value = 190 -> Op("Ldx", "AbsoluteY", 4)
      [] value = 160 -> Op("Ldy", "Immediate", 2)
      [] value = 164 -> Op("Ldy", "ZeroPage", 3)
      [] value = 180 -> Op("Ldy", "ZeroPageX", 4)
      [] value = 172 -> Op("Ldy", "Absolute", 4)
      [] value = 188 -> Op("Ldy", "AbsoluteX", 4)
      [] value = 133 -> Op("Sta", "ZeroPage", 3)
      [] value = 149 -> Op("Sta", "ZeroPageX", 4)
      [] value = 141 -> Op("Sta", "Absolute", 4)
      [] value = 157 -> Op("Sta", "AbsoluteX", 5)
      [] value = 153 -> Op("Sta", "AbsoluteY", 5)
      [] value = 129 -> Op("Sta", "IndexedIndirect", 6)
      [] value = 145 -> Op("Sta", "IndirectIndexed", 6)
      [] value = 134 -> Op("Stx", "ZeroPage", 3)
      [] value = 150 -> Op("Stx", "ZeroPageY", 4)
      [] value = 142 -> Op("Stx", "Absolute", 4)
      [] value = 132 -> Op("Sty", "ZeroPage", 3)
      [] value = 148 -> Op("Sty", "ZeroPageX", 4)
      [] value = 140 -> Op("Sty", "Absolute", 4)
      [] value = 170 -> Op("Tax", "Implicit", 2)
      [] value = 168 -> Op("Tay", "Implicit", 2)
      [] value = 138 -> Op("Txa", "Implicit", 2)
      [] value = 152 -> Op("Tya", "Implicit", 2)
      [] value = 186 -> Op("Tsx", "Implicit", 2)
      [] value = 154 -> Op("Txs", "Implicit", 2)
      [] value = 72 -> Op("Pha", "Implicit", 3)
      [] value = 8 -> Op("Php", "Implicit", 3)
      [] value = 104 -> Op("Pla", "Implicit", 4)
      [] value = 40 -> Op("Plp", "Implicit", 4)
      [] value = 41 -> Op("And", "Immediate", 2)
      [] value = 37 -> Op("And", "ZeroPage", 3)
      [] value = 53 -> Op("And", "ZeroPageX", 4)
      [] value = 45 -> Op("And", "Absolute", 4)
      [] value = 61 -> Op("And", "AbsoluteX", 4)
      [] value = 57 -> Op("And", "AbsoluteY", 4)
      [] value = 33 -> Op("And", "IndexedIndirect", 6)
      [] value = 49 -> Op("And", "IndirectIndexed", 5)
      [] value = 73 -> Op("Eor", "Immediate", 2)
      [] value = 69 -> Op("Eor", "ZeroPage", 3)
      [] value = 85 -> Op("Eor", "ZeroPageX", 4)
      [] value = 77 -> Op("Eor", "Absolute", 4)
      [] value = 93 -> Op("Eor", "AbsoluteX", 4)
      [] value = 89 -> Op("Eor", "AbsoluteY", 4)
      [] value = 65 -> Op("Eor", "IndexedIndirect", 6)
      [] value = 81 -> Op("Eor", "IndirectIndexed", 5)
      [] value = 9 -> Op("Ora", "Immediate", 2)
      [] value = 5 -> Op("Ora", "ZeroPage", 3)
      [] value = 21 -> Op("Ora", "ZeroPageX", 4)
      [] value = 13 -> Op("Ora", "Absolute", 4)
      [] value = 29 -> Op("Ora", "AbsoluteX", 4)
      [] value = 25 -> Op("Ora", "AbsoluteY", 4)
      [] value = 1 -> Op("Ora", "IndexedIndirect", 6)
      [] value = 17 -> Op("Ora", "IndirectIndexed", 5)
      [] value = 36 -> Op("Bit", "ZeroPage", 3)
      [] value = 44 -> Op("Bit", "Absolute", 4)
      [] value = 105 -> Op("Adc", "Immediate", 2)
      [] value = 101 -> Op("Adc", "ZeroPage", 3)
      [] value = 117 -> Op("Adc", "ZeroPageX", 4)
      [] value = 109 -> Op("Adc", "Absolute", 4)
      [] value = 125 -> Op("Adc", "AbsoluteX", 4)
      [] value = 121 -> Op("Adc", "AbsoluteY", 4)
      [] value = 97 -> Op("Adc", "IndexedIndirect", 6)
      [] value = 113 -> Op("Adc", "IndirectIndexed", 5)
      [] value = 233 -> Op("Sbc", "Immediate", 2)
      [] value = 229 -> Op("Sbc", "ZeroPage", 3)
      [] value = 245 -> Op("Sbc", "ZeroPageX", 4)
      [] value = 237 -> Op("Sbc", "Absolute", 4)
      [] value = 253 -> Op("Sbc", "AbsoluteX", 4)
      [] value = 249 -> Op("Sbc", "AbsoluteY", 4)
      [] value = 225 -> Op("Sbc", "IndexedIndirect", 6)
      [] value = 241 -> Op("Sbc", "IndirectIndexed", 5)
      [] value = 201 -> Op("Cmp", "Immediate", 2)
      [] value = 197 -> Op("Cmp", "ZeroPage", 3)
      [] value = 213 -> Op("Cmp", "ZeroPageX", 4)
      [] value = 205 -> Op("Cmp", "Absolute", 4)
      [] value = 221 -> Op("Cmp", "AbsoluteX", 4)
      [] value = 217 -> Op("Cmp", "AbsoluteY", 4)
      [] value = 193 -> Op("Cmp", "IndexedIndirect", 6)
      [] value = 209 -> Op("Cmp", "IndirectIndexed", 5)
      [] value = 224 -> Op("Cpx", "Immediate", 2)
      [] value = 228 -> Op("Cpx", "ZeroPage", 3)
      [] value = 236 -> Op("Cpx", "Absolute", 4)
      [] value = 192 -> Op("Cpy", "Immediate", 2)
      [] value = 196 -> Op("Cpy", "ZeroPage", 3)
      [] value = 204 -> Op("Cpy", "Absolute", 4)
      [] value = 230 -> Op("Inc", "ZeroPage", 5)
      [] value = 246 -> Op("Inc", "ZeroPageX", 6)
      [] value = 238 -> Op("Inc", "Absolute", 6)
      [] value = 254 -> Op("Inc", "AbsoluteX", 7)
      [] value = 232 -> Op("Inx", "Implicit", 2)
      [] value = 200 -> Op("Iny", "Implicit", 2)
      [] value = 198 -> Op("Dec", "ZeroPage", 5)
      [] value = 214 -> Op("Dec", "ZeroPageX", 6)
      [] value = 206 -> Op("Dec", "Absolute", 6)
      [] value = 222 -> Op("Dec", "AbsoluteX", 7)
      [] value = 202 -> Op("Dex", "Implicit", 2)
      [] value = 136 -> Op("Dey", "Implicit", 2)
      [] value = 10 -> Op("Asl", "Accumulator", 2)
      [] value = 6 -> Op("Asl", "ZeroPage", 5)
      [] value = 22 -> Op("Asl", "ZeroPageX", 6)
      [] value = 14 -> Op("Asl", "Absolute", 6)
      [] value = 30 -> Op("Asl", "AbsoluteX", 7)
      [] value = 74 -> Op("Lsr", "Accumulator", 2)
      [] value = 70 -> Op("Lsr", "ZeroPage", 5)
      [] value = 86 -> Op("Lsr", "ZeroPageX", 6)
      [] value = 78 -> Op("Lsr", "Absolute", 6)
      [] value = 94 -> Op("Lsr", "AbsoluteX", 7)
      [] value = 42 -> Op("Rol", "Accumulator", 2)
      [] value = 38 -> Op("Rol", "ZeroPage", 5)
      [] value = 54 -> Op("Rol", "ZeroPageX", 6)
      [] value = 46 -> Op("Rol", "Absolute", 6)
      [] value = 62 -> Op("Rol", "AbsoluteX", 7)
      [] value = 106 -> Op("Ror", "Accumulator", 2)
      [] value = 102 -> Op("Ror", "ZeroPage", 5)
      [] value = 118 -> Op("Ror", "ZeroPageX", 6)
      [] value = 110 -> Op("Ror", "Absolute", 6)
      [] value = 126 -> Op("Ror", "AbsoluteX", 7)
      [] value = 76 -> Op("Jmp", "Absolute", 3)
      [] value = 108 -> Op("Jmp", "Indirect", 5)
      [] value = 32 -> Op("Jsr", "Absolute", 6)
      [] value = 96 -> Op("Rts", "Implicit", 6)
      [] value = 144 -> Op("Bcc", "Relative", 2)
      [] value = 176 -> Op("Bcs", "Relative", 2)
      [] value = 240 -> Op("Beq", "Relative", 2)
      [] value = 48 -> Op("Bmi", "Relative", 2)
      [] value = 208 -> Op("Bne", "Relative", 2)
      [] value = 16 -> Op("Bpl", "Relative", 2)
      [] value = 80 -> Op("Bvc", "Relative", 2)
      [] value = 112 -> Op("Bvs", "Relative", 2)
      [] value = 24 -> Op("Clc", "Implicit", 2)
      [] value = 216 -> Op("Cld", "Implicit", 2)
      [] value = 88 -> Op("Cli", "Implicit", 2)
      [] value = 184 -> Op("Clv", "Implicit", 2)
      [] value = 56 -> Op("Sec", "Implicit", 2)
      [] value = 248 -> Op("Sed", "Implicit", 2)
      [] value = 120 -> Op("Sei", "Implicit", 2)
      [] value = 0 -> Op("Brk", "Implicit", 7)
      [] value = 234 -> Op("Nop", "Implicit", 2)
      [] value = 64 -> Op("Rti", "Implicit", 6)
              [] OTHER -> Op("Bad", "Implicit", 0)
    IN  IF known.op = "Bad" THEN Err(c, "BadOpCode", value) ELSE Ok(c, known)

----------------------------------------------------------------------------
(* cpu/mod.rs: the helpers of impl Cpu *)

\* Cpu::read
read(c, addr) ==
    IF inside_bounds(c.addr, addr) THEN Ok(c, MemRead(c.addr, addr))
    ELSE Err(c, "OutOfBounds", addr)

\* Cpu::read_word: a2 = a1 + 1 is computed before either read
read_word(c, a1) ==
    Then(u16_add(c, a1, 1), LAMBDA r2 :
    Then(read(c, a1), LAMBDA addr :
    Then(read(c, r2.val), LAMBDA page :
    Ok(c, WordOfFull(addr.val, page.val)))))

\* self.PC += n
pc_add(c, n) ==
    Then(u16_add(c, c.PC, n), LAMBDA r : Ok([c EXCEPT !.PC = r.val], 0))

\* Cpu::fetch
fetch(c) ==
    Then(read(c, c.PC), LAMBDA data :
    Then(pc_add(c, 1), LAMBDA r : Ok(r.cpu, data.val)))

\* Cpu::fetch_word
fetch_word(c) ==
    Then(read_word(c, c.PC), LAMBDA data :
    Then(pc_add(c, 2), LAMBDA r : Ok(r.cpu, data.val)))

\* Cpu::read_op
read_op(c) ==
    Then(read(c, c.PC), LAMBDA b : Decode(c, b.val))

\* mutant of fetch_op: moves PC before it decodes
fetch_op_advances_first(c) ==
    Then(read(c, c.PC), LAMBDA b :
    Then(pc_add(c, 1), LAMBDA r :
    Then(Decode(r.cpu, b.val), LAMBDA op : Ok(r.cpu, op.val))))

\* Cpu::fetch_op
fetch_op(c) ==
    Then(read_op(c), LAMBDA op :
    Then(pc_add(c, 1), LAMBDA r : Ok(r.cpu, op.val)))

\* Cpu::write
write(c, addr, value) ==
    IF inside_bounds(c.addr, addr)
    THEN Ok([c EXCEPT !.addr = MemWrite(c.addr, addr, value)], 0)
    ELSE Err(c, "OutOfBounds", addr)

\* Cpu::stack_push: write to Full(SP, SP_PAGE), then SP = SP.wrapping_sub(1)
stack_push(c, byte) ==
    Then(write(c, WordOfFull(c.SP, SP_PAGE), byte), LAMBDA w :
    Ok([w.cpu EXCEPT !.SP = wrapping_sub(c.SP, 1)], 0))

\* mutant of stack_pop: reads the cell at SP before moving SP
stack_pop_read_first(c) ==
    Then(read(c, WordOfFull(c.SP, SP_PAGE)), LAMBDA d :
    Ok([c EXCEPT !.SP = wrapping_add(c.SP, 1)], d.val))

\* Cpu::stack_pop: SP = SP.wrapping_add(1), then read Full(SP, SP_PAGE)
stack_pop(c) ==
    LET c1 == [c EXCEPT !.SP = wrapping_add(c.SP, 1)]
    IN  read(c1, WordOfFull(c1.SP, SP_PAGE))

\* Cpu::status_get
status_get(c) ==
    (IF c.C THEN C_FLAG ELSE 0) + (IF c.Z THEN Z_FLAG ELSE 0) + (IF c.I THEN I_FLAG ELSE 0)
    + (IF c.D THEN D_FLAG ELSE 0) + (IF c.B THEN B_FLAG ELSE 0) + (IF c.V THEN V_FLAG ELSE 0)
    + (IF c.N THEN N_FLAG ELSE 0)

\* Cpu::status_set: the seven flags, then assert!(!self.D)
status_set(c, status) ==
    LET c1 == [c EXCEPT !.C = BitAnd(status, C_FLAG) > 0,
                        !.Z = BitAnd(status, Z_FLAG) > 0,
                        !.I = BitAnd(status, I_FLAG) > 0,
                        !.D = BitAnd(status, D_FLAG) > 0,
                        !.B = BitAnd(status, B_FLAG) > 0,
                        !.V = BitAnd(status, V_FLAG) > 0,
                        !.N = BitAnd(status, N_FLAG) > 0]
    IN  IF c1.D THEN Panic(c1) ELSE Ok(c1, 0)

\* mutant of flags_zn: N for the bytes above $80 only
flags_zn_above(c, r) == [c EXCEPT !.Z = (r = 0), !.N = r > 128]

\* macro flags_zn!
flags_zn(c, r) == [c EXCEPT !.Z = (r = 0), !.N = BitAnd(r, 128) > 0]

\* mutant of fetch_addr: the zero-page index carries into page one
fetch_addr_zero_page_carry(c, mode) ==
    CASE mode \in {"Accumulator", "Relative", "Implicit"} -> Err(c, "InvalidAddressMode", 0)
      [] mode = "Immediate" ->
            Then(pc_add(c, 1), LAMBDA r : u16_sub(r.cpu, r.cpu.PC, 1))
      [] mode = "ZeroPage" ->
            Then(fetch(c), LAMBDA f : Ok(f.cpu, WordOfZero(f.val)))
      [] mode = "ZeroPageX" ->
            Then(fetch(c), LAMBDA f : Ok(f.cpu, f.val + f.cpu.X))
      [] mode = "ZeroPageY" ->
            Then(fetch(c), LAMBDA f : Ok(f.cpu, f.val + f.cpu.Y))
      [] mode = "Absolute" -> fetch_word(c)
      [] mode = "AbsoluteX" ->
            Then(fetch_word(c), LAMBDA f : u16_add(f.cpu, f.val, f.cpu.X))
      [] mode = "AbsoluteY" ->
            Then(fetch_word(c), LAMBDA f : u16_add(f.cpu, f.val, f.cpu.Y))
      [] mode = "Indirect" -> Panic(c)
      [] mode = "IndexedIndirect" ->
            Then(fetch(c), LAMBDA f : read_word(f.cpu, wrapping_add(f.val, f.cpu.X)))
      [] mode = "IndirectIndexed" ->
            Then(fetch(c), LAMBDA f :
            Then(read_word(f.cpu, WordOfZero(f.val)), LAMBDA t :
            u16_add(t.cpu, t.val, t.cpu.Y)))

\* Cpu::fetch_addr
fetch_addr(c, mode) ==
    CASE mode \in {"Accumulator", "Relative", "Implicit"} -> Err(c, "InvalidAddressMode", 0)
      [] mode = "Immediate" ->
            Then(pc_add(c, 1), LAMBDA r : u16_sub(r.cpu, r.cpu.PC, 1))
      [] mode = "ZeroPage" ->
            Then(fetch(c), LAMBDA f : Ok(f.cpu, WordOfZero(f.val)))
      [] mode = "ZeroPageX" ->
            Then(fetch(c), LAMBDA f : Ok(f.cpu, WordOfZero(wrapping_add(f.val, f.cpu.X))))
      [] mode = "ZeroPageY" ->
            Then(fetch(c), LAMBDA f : Ok(f.cpu, WordOfZero(wrapping_add(f.val, f.cpu.Y))))
      [] mode = "Absolute" -> fetch_word(c)
      [] mode = "AbsoluteX" ->
            Then(fetch_word(c), LAMBDA f : u16_add(f.cpu, f.val, f.cpu.X))
      [] mode = "AbsoluteY" ->
            Then(fetch_word(c), LAMBDA f : u16_add(f.cpu, f.val, f.cpu.Y))
      [] mode = "Indirect" -> Panic(c)
      [] mode = "IndexedIndirect" ->
            Then(fetch(c), LAMBDA f : read_word(f.cpu, wrapping_add(f.val, f.cpu.X)))
      [] mode = "IndirectIndexed" ->
            Then(fetch(c), LAMBDA f :
            Then(read_word(f.cpu, WordOfZero(f.val)), LAMBDA t :
            u16_add(t.cpu, t.val, t.cpu.Y)))

\* let addr = self.fetch_addr(&mode)?; let data = self.read(addr)?;
\* val is <<addr, data>>
fetch_operand(c, mode) ==
    Then(fetch_addr(c, mode), LAMBDA a :
    Then(read(a.cpu, a.val), LAMBDA d : Ok(a.cpu, <<a.val, d.val>>)))

----------------------------------------------------------------------------
(* cpu/mod.rs: impl Interruptible, impl Resettable *)

\* mutant of interrupt: pushes the bytes of PC instead of PC - 1
interrupt_pushes_pc(c, tp) ==
    LET int_addr == IF tp = 0 THEN IRQB ELSE NMIB
    IN  IF c.I /\ int_addr = IRQB THEN Ok(c, 0)
        ELSE
            Then(stack_push(c, PageOf(c.PC)), LAMBDA p1 :
            Then(stack_push(p1.cpu, AddrOf(c.PC)), LAMBDA p2 :
            Then(read_word(p2.cpu, int_addr), LAMBDA v :
            LET c3 == [p2.cpu EXCEPT !.PC = v.val]
            IN  Then(stack_push(c3, status_get(c3)), LAMBDA p3 :
                Ok([p3.cpu EXCEPT !.I = TRUE], 0)))))

\* mutant of interrupt: the vector is read before anything is pushed
interrupt_reads_vector_first(c, tp) ==
    LET int_addr == IF tp = 0 THEN IRQB ELSE NMIB
    IN  IF c.I /\ int_addr = IRQB THEN Ok(c, 0)
        ELSE
            Then(u16_sub(c, c.PC, 1), LAMBDA w :
            Then(read_word(c, int_addr), LAMBDA v :
            Then(stack_push(c, PageOf(w.val)), LAMBDA p1 :
            Then(stack_push(p1.cpu, AddrOf(w.val)), LAMBDA p2 :
            LET c3 == [p2.cpu EXCEPT !.PC = v.val]
            IN  Then(stack_push(c3, status_get(c3)), LAMBDA p3 :
                Ok([p3.cpu EXCEPT !.I = TRUE], 0))))))

\* Interruptible::interrupt
interrupt(c, tp) ==
    LET int_addr == IF tp = 0 THEN IRQB ELSE NMIB
    IN  IF c.I /\ int_addr = IRQB THEN Ok(c, 0)
        ELSE
            Then(u16_sub(c, c.PC, 1), LAMBDA w :
            Then(stack_push(c, PageOf(w.val)), LAMBDA p1 :
            Then(stack_push(p1.cpu, AddrOf(w.val)), LAMBDA p2 :
            Then(read_word(p2.cpu, int_addr), LAMBDA v :
            LET c3 == [p2.cpu EXCEPT !.PC = v.val]
            IN  Then(stack_push(c3, status_get(c3)), LAMBDA p3 :
                Ok([p3.cpu EXCEPT !.I = TRUE], 0))))))

\* mutant of reset: leaves the remaining-cycle counter of Mode::Original
reset_keeps_cycles(c) ==
    LET c1 == [c EXCEPT !.SP = SP_ADDR]
    IN  Then(read_word(c1, RESB), LAMBDA v :
        Ok([c1 EXCEPT !.PC = v.val, !.A = 0, !.X = 0, !.Y = 0,
                      !.I = FALSE, !.D = FALSE, !.B = FALSE], 0))

\* mutant of reset: moves SP three down, as the hardware does, instead of
\* loading SP_ADDR
reset_moves_sp(c) ==
    LET c1 == [c EXCEPT !.SP = wrapping_sub(c.SP, 3)]
    IN  Then(read_word(c1, RESB), LAMBDA v :
        Ok([c1 EXCEPT !.PC = v.val, !.A = 0, !.X = 0, !.Y = 0,
                      !.I = FALSE, !.D = FALSE, !.B = FALSE,
                      !.mode = IF c1.mode.orig THEN [orig |-> TRUE, n |-> 0] ELSE c1.mode],
           0))

\* Resettable::reset
reset(c) ==
    LET c1 == [c EXCEPT !.SP = SP_ADDR]
    IN  Then(read_word(c1, RESB), LAMBDA v :
        Ok([c1 EXCEPT !.PC = v.val, !.A = 0, !.X = 0, !.Y = 0,
                      !.I = FALSE, !.D = FALSE, !.B = FALSE,
                      !.mode = IF c1.mode.orig THEN [orig |-> TRUE, n |-> 0] ELSE c1.mode],
           0))

----------------------------------------------------------------------------
(* cpu/mod.rs: Tickable::tick.  Every arm returns the Cpu it leaves and, in *)
(* val, the cycles it adds to noop.                                        *)

SetReg(c, reg, v) == [c EXCEPT ![reg] = v]

\* Lda / Ldx / Ldy
exec_load(c, reg, mode) ==
    Then(fetch_operand(c, mode), LAMBDA o :
    Ok(flags_zn(SetReg(o.cpu, reg, o.val[2]), o.val[2]), 0))

\* Sta / Stx / Sty
exec_store(c, reg, mode) ==
    Then(fetch_addr(c, mode), LAMBDA a : write(a.cpu, a.val, a.cpu[reg]))

\* Tax / Tay / Txa / Tya / Tsx
exec_transfer(c, to, from) == Ok(flags_zn(SetReg(c, to, c[from]), c[from]), 0)

\* And / Eor / Ora
exec_logic(c, op, mode) ==
    Then(fetch_operand(c, mode), LAMBDA o :
    LET r == CASE op = "And" -> BitAnd(o.cpu.A, o.val[2])
               [] op = "Eor" -> BitXor(o.cpu.A, o.val[2])
               [] op = "Ora" -> BitOr(o.cpu.A, o.val[2])
    IN  Ok(flags_zn([o.cpu EXCEPT !.A = r], r), 0))

\* Bit
exec_bit(c, mode) ==
    Then(fetch_operand(c, mode), LAMBDA o :
    Ok([o.cpu EXCEPT !.Z = (BitAnd(o.val[2], o.cpu.A) = 0),
                     !.N = BitAnd(o.val[2], 128) > 0,
                     !.V = BitAnd(o.val[2], 64) > 0], 0))

\* mutant of exec_adc: the carry of the second addition is dropped
exec_adc_first_carry(c, mode) ==
    Then(fetch_operand(c, mode), LAMBDA o :
    LET result1 == (o.cpu.A + o.val[2]) % ByteMod
        carry1 == o.cpu.A + o.val[2] >= ByteMod
        cin == IF o.cpu.C THEN 1 ELSE 0
        result2 == (result1 + cin) % ByteMod
    IN  Ok(flags_zn([o.cpu EXCEPT !.A = result2, !.C = carry1], result2), 0))

\* Adc: two overflowing_add, C = carry1 || carry2
exec_adc(c, mode) ==
    Then(fetch_operand(c, mode), LAMBDA o :
    LET result1 == (o.cpu.A + o.val[2]) % ByteMod
        carry1 == o.cpu.A + o.val[2] >= ByteMod
        cin == IF o.cpu.C THEN 1 ELSE 0
        result2 == (result1 + cin) % ByteMod
        carry2 == result1 + cin >= ByteMod
    IN  Ok(flags_zn([o.cpu EXCEPT !.A = result2, !.C = carry1 \/ carry2], result2), 0))

\* mutant of exec_sbc: the borrow of the second subtraction is dropped
exec_sbc_first_borrow(c, mode) ==
    Then(fetch_operand(c, mode), LAMBDA o :
    LET result1 == wrapping_sub(o.cpu.A, o.val[2])
        carry1 == o.cpu.A < o.val[2]
        bin == IF o.cpu.C THEN 0 ELSE 1
        result2 == wrapping_sub(result1, bin)
    IN  Ok(flags_zn([o.cpu EXCEPT !.A = result2, !.C = ~carry1], result2), 0))

\* Sbc: two overflowing_sub, C = !(carry1 || carry2)
exec_sbc(c, mode) ==
    Then(fetch_operand(c, mode), LAMBDA o :
    LET result1 == wrapping_sub(o.cpu.A, o.val[2])
        carry1 == o.cpu.A < o.val[2]
        bin == IF o.cpu.C THEN 0 ELSE 1
        result2 == wrapping_sub(result1, bin)
        carry2 == result1 < bin
    IN  Ok(flags_zn([o.cpu EXCEPT !.A = result2, !.C = ~(carry1 \/ carry2)], result2), 0))

\* mutant of compare: C only when the register is strictly greater
compare_strict(c, reg, mode) ==
    Then(fetch_operand(c, mode), LAMBDA o :
    LET res == wrapping_sub(o.cpu[reg], o.val[2])
    IN  Ok([o.cpu EXCEPT !.C = (o.cpu[reg] > o.val[2]),
                         !.Z = (o.cpu[reg] = o.val[2]),
                         !.N = BitAnd(res, 128) > 0], 0))

\* macro compare!
compare(c, reg, mode) ==
    Then(fetch_operand(c, mode), LAMBDA o :
    LET res == wrapping_sub(o.cpu[reg], o.val[2])
    IN  Ok([o.cpu EXCEPT !.C = (o.cpu[reg] >= o.val[2]),
                         !.Z = (o.cpu[reg] = o.val[2]),
                         !.N = BitAnd(res, 128) > 0], 0))

\* Inc / Dec on memory: read, wrap by one, write, flags
exec_incdec_mem(c, delta, mode) ==
    Then(fetch_operand(c, mode), LAMBDA o :
    LET data == (o.val[2] + delta + ByteMod) % ByteMod
    IN  Then(write(o.cpu, o.val[1], data), LAMBDA w : Ok(flags_zn(w.cpu, data), 0)))

\* Inx / Iny / Dex / Dey
exec_incdec_reg(c, reg, delta) ==
    LET v == (c[reg] + delta + ByteMod) % ByteMod
    IN  Ok(flags_zn(SetReg(c, reg, v), v), 0)

\* mutant of exec_shift: ROR shifts in a zero instead of the carry
exec_shift_ror_no_carry(c, op, mode) ==
    LET src == IF mode = "Accumulator" THEN Ok(c, <<-1, c.A>>) ELSE fetch_operand(c, mode)
    IN  Then(src, LAMBDA o :
        LET data == o.val[2]
            old_c == IF o.cpu.C THEN 1 ELSE 0
            new_c == IF op \in {"Asl", "Rol"} THEN BitAnd(data, 128) > 0
                     ELSE BitAnd(data, 1) > 0
            res == CASE op = "Asl" -> (data * 2) % ByteMod
                     [] op = "Lsr" -> data \div 2
                     [] op = "Rol" -> ((data * 2) % ByteMod) + old_c
                     [] op = "Ror" -> data \div 2
            c1 == [o.cpu EXCEPT !.C = new_c]
            stored == IF o.val[1] = -1 THEN Ok([c1 EXCEPT !.A = res], 0)
                      ELSE write(c1, o.val[1], res)
        IN  Then(stored, LAMBDA w :
            Ok([w.cpu EXCEPT !.Z = (res = 0), !.N = BitAnd(res, 128) > 0], 0)))

\* Asl / Lsr / Rol / Ror: on A for Accumulator, on memory otherwise
exec_shift(c, op, mode) ==
    LET src == IF mode = "Accumulator" THEN Ok(c, <<-1, c.A>>) ELSE fetch_operand(c, mode)
    IN  Then(src, LAMBDA o :
        LET data == o.val[2]
            old_c == IF o.cpu.C THEN 1 ELSE 0
            new_c == IF op \in {"Asl", "Rol"} THEN BitAnd(data, 128) > 0
                     ELSE BitAnd(data, 1) > 0
            res == CASE op = "Asl" -> (data * 2) % ByteMod
                     [] op = "Lsr" -> data \div 2
                     [] op = "Rol" -> ((data * 2) % ByteMod) + old_c
                     [] op = "Ror" -> BitOr(data \div 2, old_c * 128)
            c1 == [o.cpu EXCEPT !.C = new_c]
            stored == IF o.val[1] = -1 THEN Ok([c1 EXCEPT !.A = res], 0)
                      ELSE write(c1, o.val[1], res)
        IN  Then(stored, LAMBDA w :
            Ok([w.cpu EXCEPT !.Z = (res = 0), !.N = BitAnd(res, 128) > 0], 0)))

\* mutant of exec_jmp: a pointer at the end of a page takes its high byte
\* from the start of the same page
exec_jmp_page_wrap(c, mode) ==
    IF mode = "Absolute"
    THEN Then(fetch_word(c), LAMBDA f : Ok([f.cpu EXCEPT !.PC = f.val], 0))
    ELSE Then(fetch_word(c), LAMBDA f :
         Then(read(f.cpu, f.val), LAMBDA lo :
         Then(read(lo.cpu, IF f.val % ByteMod = 255 THEN f.val - 255 ELSE f.val + 1), LAMBDA hi :
         Ok([hi.cpu EXCEPT !.PC = hi.val * ByteMod + lo.val], 0))))

\* (Jmp, Absolute) and (Jmp, Indirect)
exec_jmp(c, mode) ==
    IF mode = "Absolute"
    THEN Then(fetch_word(c), LAMBDA f : Ok([f.cpu EXCEPT !.PC = f.val], 0))
    ELSE Then(fetch_word(c), LAMBDA f :
         Then(read_word(f.cpu, f.val), LAMBDA t : Ok([f.cpu EXCEPT !.PC = t.val], 0)))

\* mutant of exec_jsr: pushes the low byte of the return address first
exec_jsr_low_first(c) ==
    Then(fetch_word(c), LAMBDA f :
    Then(u16_sub(f.cpu, f.cpu.PC, 1), LAMBDA w :
    Then(stack_push(f.cpu, AddrOf(w.val)), LAMBDA p1 :
    Then(stack_push(p1.cpu, PageOf(w.val)), LAMBDA p2 :
    Ok([p2.cpu EXCEPT !.PC = f.val], 0)))))

\* Jsr: push page then addr of PC - 1, PC = new_pc
exec_jsr(c) ==
    Then(fetch_word(c), LAMBDA f :
    Then(u16_sub(f.cpu, f.cpu.PC, 1), LAMBDA w :
    Then(stack_push(f.cpu, PageOf(w.val)), LAMBDA p1 :
    Then(stack_push(p1.cpu, AddrOf(w.val)), LAMBDA p2 :
    Ok([p2.cpu EXCEPT !.PC = f.val], 0)))))

\* Rts: pop addr then page, PC = Full(addr, page), PC += 1
exec_rts(c) ==
    Then(stack_pop(c), LAMBDA a :
    Then(stack_pop(a.cpu), LAMBDA p :
    pc_add([p.cpu EXCEPT !.PC = WordOfFull(a.val, p.val)], 1)))

\* i32::from(self.PC) + i32::from(offset), offset: Byte
branch_target(pc, offset) == pc + offset

\* mutant of branch: the condition is not consulted
branch_always(c, cond) ==
    Then(fetch(c), LAMBDA f :
    LET t == branch_target(f.cpu.PC, f.val)
    IN  IF t \in 0..(WordMod - 1) THEN Ok([f.cpu EXCEPT !.PC = t], 1)
        ELSE Err(f.cpu, "Other", 0))

\* macro branch!: val is 1 when the branch is taken (noop += 1)
branch(c, cond) ==
    Then(fetch(c), LAMBDA f :
    IF cond
    THEN LET t == branch_target(f.cpu.PC, f.val)
         IN  IF t \in 0..(WordMod - 1) THEN Ok([f.cpu EXCEPT !.PC = t], 1)
             ELSE Err(f.cpu, "Other", 0)
    ELSE Ok(f.cpu, 0))

\* mutant of exec_brk: requests the NMI
exec_brk_nmi(c) == interrupt(c, 1)

\* Brk
exec_brk(c) == interrupt(c, 0)

\* mutant of exec_rti: PC is the popped word itself
exec_rti_no_increment(c) ==
    LET c0 == [c EXCEPT !.I = FALSE]
    IN  Then(stack_pop(c0), LAMBDA s :
        Then(status_set(s.cpu, s.val), LAMBDA f :
        Then(stack_pop(f.cpu), LAMBDA a :
        Then(stack_pop(a.cpu), LAMBDA p :
        Ok([p.cpu EXCEPT !.PC = WordOfFull(a.val, p.val)], 0)))))

\* Rti: I = false, pop status, status_set, pop addr, pop page, PC += 1
exec_rti(c) ==
    LET c0 == [c EXCEPT !.I = FALSE]
    IN  Then(stack_pop(c0), LAMBDA s :
        Then(status_set(s.cpu, s.val), LAMBDA f :
        Then(stack_pop(f.cpu), LAMBDA a :
        Then(stack_pop(a.cpu), LAMBDA p :
        pc_add([p.cpu EXCEPT !.PC = WordOfFull(a.val, p.val)], 1)))))

\* mutant of exec_sed: sets D and lets the tick complete
exec_sed_ok(c) == Ok([c EXCEPT !.D = TRUE], 0)

\* mutant of exec_sed: returns the error without setting D
exec_sed_refuses_first(c) == Err(c, "Other", 0)

\* Sed: D = true, then return Err("decimal Mode not supported".into())
exec_sed(c) == Err([c EXCEPT !.D = TRUE], "Other", 0)

\* the match (op, mode) of tick
execute(c, op, mode) ==
    CASE op = "Lda" -> exec_load(c, "A", mode)
      [] op = "Ldx" -> exec_load(c, "X", mode)
      [] op = "Ldy" -> exec_load(c, "Y", mode)
      [] op = "Sta" -> exec_store(c, "A", mode)
      [] op = "Stx" -> exec_store(c, "X", mode)
      [] op = "Sty" -> exec_store(c, "Y", mode)
      [] op = "Tax" -> exec_transfer(c, "X", "A")
      [] op = "Tay" -> exec_transfer(c, "Y", "A")
      [] op = "Txa" -> exec_transfer(c, "A", "X")
      [] op = "Tya" -> exec_transfer(c, "A", "Y")
      [] op = "Tsx" -> exec_transfer(c, "X", "SP")
      [] op = "Txs" -> Ok([c EXCEPT !.SP = c.X], 0)
      [] op = "Pha" -> stack_push(c, c.A)
      [] op = "Php" -> stack_push(c, status_get(c))
      [] op = "Pla" -> Then(stack_pop(c), LAMBDA d :
                       Ok(flags_zn([d.cpu EXCEPT !.A = d.val], d.val), 0))
      [] op = "Plp" -> Then(stack_pop(c), LAMBDA d : status_set(d.cpu, d.val))
      [] op \in {"And", "Eor", "Ora"} -> exec_logic(c, op, mode)
      [] op = "Bit" -> exec_bit(c, mode)
      [] op = "Adc" -> exec_adc(c, mode)
      [] op = "Sbc" -> exec_sbc(c, mode)
      [] op = "Cmp" -> compare(c, "A", mode)
      [] op = "Cpx" -> compare(c, "X", mode)
      [] op = "Cpy" -> compare(c, "Y", mode)
      [] op = "Inc" -> exec_incdec_mem(c, 1, mode)
      [] op = "Dec" -> exec_incdec_mem(c, -1, mode)
      [] op = "Inx" -> exec_incdec_reg(c, "X", 1)
      [] op = "Iny" -> exec_incdec_reg(c, "Y", 1)
      [] op = "Dex" -> exec_incdec_reg(c, "X", -1)
      [] op = "Dey" -> exec_incdec_reg(c, "Y", -1)
      [] op \in {"Asl", "Lsr", "Rol", "Ror"} -> exec_shift(c, op, mode)
      [] op = "Jmp" -> exec_jmp(c, mode)
      [] op = "Jsr" -> exec_jsr(c)
      [] op = "Rts" -> exec_rts(c)
      [] op = "Bcc" -> branch(c, ~c.C)
      [] op = "Bcs" -> branch(c, c.C)
      [] op = "Beq" -> branch(c, c.Z)
      [] op = "Bmi" -> branch(c, c.N)
      [] op = "Bne" -> branch(c, ~c.Z)
      [] op = "Bpl" -> branch(c, ~c.N)
      [] op = "Bvc" -> branch(c, ~c.V)
      [] op = "Bvs" -> branch(c, c.V)
      [] op = "Clc" -> Ok([c EXCEPT !.C = FALSE], 0)
      [] op = "Cld" -> Ok([c EXCEPT !.D = FALSE], 0)
      [] op = "Cli" -> Ok([c EXCEPT !.I = FALSE], 0)
      [] op = "Clv" -> Ok([c EXCEPT !.V = FALSE], 0)
      [] op = "Sec" -> Ok([c EXCEPT !.C = TRUE], 0)
      [] op = "Sed" -> exec_sed(c)
      [] op = "Sei" -> Ok([c EXCEPT !.I = TRUE], 0)
      [] op = "Brk" -> exec_brk(c)
      [] op = "Rti" -> exec_rti(c)
      [] op = "Nop" -> Ok(c, 0)

\* mutant of tick: does not take the fetch cycle off the cycles left to burn
tick_counts_fetch(c) ==
    IF c.mode.orig /\ c.mode.n > 0
    THEN Ok([c EXCEPT !.mode.n = @ - 1], 0)
    ELSE
        Then(fetch_op(c), LAMBDA f :
        Then(execute(f.cpu, f.val.op, f.val.mode), LAMBDA e :
        LET noop == f.val.cycles + e.val
        IN  Ok(IF e.cpu.mode.orig THEN [e.cpu EXCEPT !.mode.n = noop] ELSE e.cpu, 0)))

\* mutant of tick: the opcode is fetched before the cycle is burnt
tick_fetch_before_burn(c) ==
    Then(fetch_op(c), LAMBDA f :
    IF f.cpu.mode.orig /\ f.cpu.mode.n > 0
    THEN Ok([f.cpu EXCEPT !.mode.n = @ - 1], 0)
    ELSE
        Then(execute(f.cpu, f.val.op, f.val.mode), LAMBDA e :
        LET noop == (f.val.cycles - 1) + e.val
        IN  Ok(IF e.cpu.mode.orig THEN [e.cpu EXCEPT !.mode.n = noop] ELSE e.cpu, 0)))

\* Tickable::tick
tick(c) ==
    IF c.mode.orig /\ c.mode.n > 0
    THEN Ok([c EXCEPT !.mode.n = @ - 1], 0)
    ELSE
        Then(fetch_op(c), LAMBDA f :
        Then(execute(f.cpu, f.val.op, f.val.mode), LAMBDA e :
        LET noop == (f.val.cycles - 1) + e.val
        IN  Ok(IF e.cpu.mode.orig THEN [e.cpu EXCEPT !.mode.n = noop] ELSE e.cpu, 0)))

\* `if count > 2000` of tick_until_nop
LoopLimit == 2000

\* mutant of tick_until_nop_step: gives up when count reaches the limit
tick_until_nop_step_early(c, count) ==
    LET op == read_op(c)
        none == Ok(c, 0)
    IN  IF op.st # "ok"
        THEN [st |-> op.st, count |-> count, ticked |-> FALSE, t |-> none]
        ELSE IF op.val.op = "Nop"
        THEN [st |-> "ok", count |-> count, ticked |-> FALSE, t |-> none]
        ELSE IF count + 1 >= LoopLimit
        THEN [st |-> "endless Loop", count |-> count + 1, ticked |-> FALSE, t |-> none]
        ELSE LET t == tick(c)
             IN  [st |-> IF t.st = "ok" THEN "running" ELSE t.st,
                  count |-> count + 1, ticked |-> TRUE, t |-> t]

\* Cpu::tick_until_nop, one turn of its loop entered with `count`: st is
\* "running" when the loop goes round again, otherwise what the call returns
\* ("ok", the error, "panic"); t is the result of the tick when one was made
tick_until_nop_step(c, count) ==
    LET op == read_op(c)
        none == Ok(c, 0)
    IN  IF op.st # "ok"
        THEN [st |-> op.st, count |-> count, ticked |-> FALSE, t |-> none]
        ELSE IF op.val.op = "Nop"
        THEN [st |-> "ok", count |-> count, ticked |-> FALSE, t |-> none]
        ELSE IF count + 1 > LoopLimit
        THEN [st |-> "endless Loop", count |-> count + 1, ticked |-> FALSE, t |-> none]
        ELSE LET t == tick(c)
             IN  [st |-> IF t.st = "ok" THEN "running" ELSE t.st,
                  count |-> count + 1, ticked |-> TRUE, t |-> t]

----------------------------------------------------------------------------
(* Bounds *)

\* calls (tick, reset, interrupt) made in one run of Spec
MaxSteps == 4

\* calls made in one run of SpecStack
MaxStackSteps == 3

\* ticks made in one run of SpecInstr
MaxInstrSteps == 3

----------------------------------------------------------------------------
(* Ghost state: the return frames on the stack *)

NoFrame == [kind |-> "none", site |-> 0, sp |-> 0, st |-> 0, clean |-> FALSE]

\* the stack cells of a frame pushed at stack pointer sp: n bytes, downwards
FrameCells(sp, n) == {WordOfFull(wrapping_sub(sp, i), SP_PAGE) : i \in 0..(n - 1)}

FrameSize(f) == IF f.kind = "jsr" THEN 2 ELSE 3

\* the instruction a tick of c executes: "burn" for a burnt cycle, "none" when
\* the opcode cannot be read or decoded
InstrAt(c) ==
    IF c.mode.orig /\ c.mode.n > 0 THEN "burn"
    ELSE LET r == read_op(c) IN IF r.st = "ok" THEN r.val.op ELSE "none"

\* frames after a call that took c to r.cpu
NextFrames(c, r, call, tp) ==
    LET instr == IF call = "tick" THEN InstrAt(c) ELSE "none"
        kept == IF call = "tick" /\ instr \in {"Rts", "Rti"} /\ frames # <<>>
                THEN Tail(frames) ELSE frames
        upd == [i \in 1..Len(kept) |->
                   [kept[i] EXCEPT !.clean =
                       @ /\ \A a \in FrameCells(kept[i].sp, FrameSize(kept[i])) :
                                MemRead(r.cpu.addr, a) = MemRead(c.addr, a)]]
        new == CASE r.st # "ok" -> <<>>
                 [] call = "tick" /\ instr = "Jsr" ->
                        <<[kind |-> "jsr", site |-> c.PC, sp |-> c.SP, st |-> 0, clean |-> TRUE]>>
                 [] call = "tick" /\ instr = "Brk" /\ ~c.I ->
                        <<[kind |-> "brk", site |-> c.PC, sp |-> c.SP,
                           st |-> status_get(c), clean |-> TRUE]>>
                 [] call = "interrupt" /\ ~(c.I /\ tp = 0) ->
                        <<[kind |-> "int", site |-> c.PC, sp |-> c.SP,
                           st |-> status_get(c), clean |-> TRUE]>>
                 [] OTHER -> <<>>
    IN  IF call = "reset" THEN <<>> ELSE new \o upd

NextRet(c, call) ==
    IF call = "tick" /\ InstrAt(c) \in {"Rts", "Rti"} /\ frames # <<>>
    THEN Head(frames) ELSE NoFrame

\* the flag condition of branch op in Cpu c
BranchCond(c, op) ==
    CASE op = "Bcc" -> ~c.C
      [] op = "Bcs" -> c.C
      [] op = "Beq" -> c.Z
      [] op = "Bne" -> ~c.Z
      [] op = "Bmi" -> c.N
      [] op = "Bpl" -> ~c.N
      [] op = "Bvc" -> ~c.V
      [] op = "Bvs" -> c.V
      [] OTHER -> FALSE

BranchOps == {"Bcc", "Bcs", "Beq", "Bne", "Bmi", "Bpl", "Bvc", "Bvs"}

NoCycles == [c |-> 0, t |-> 0]

\* the cycles of the instruction at the PC of c: the Cycles of its Op, and one
\* more for a branch whose condition holds
TotalCycles(c) ==
    LET op == read_op(c).val
    IN  op.cycles + (IF op.op \in BranchOps /\ BranchCond(c, op.op) THEN 1 ELSE 0)

\* cyc after a call that took c to r.cpu
NextCyc(c, r, call) ==
    CASE call = "reset" -> NoCycles
      [] call = "tick" /\ r.st = "ok" /\ InstrAt(c) = "burn" -> [cyc EXCEPT !.t = @ + 1]
      [] call = "tick" /\ r.st = "ok" /\ InstrAt(c) # "burn" -> [c |-> TotalCycles(c), t |-> 1]
      [] OTHER -> cyc

----------------------------------------------------------------------------
(* Steps *)

\* tick_until_nop has not been called
NoLoop == [count |-> 0, st |-> "idle", ticks |-> 0]

\* the caller's view after `call` returned r
Returned(r, call, arg, instr) ==
    /\ cpu' = r.cpu
    /\ halted' = (r.st = "panic")
    /\ last' = [call |-> call, arg |-> arg, instr |-> instr, st |-> r.st, val |-> r.val]
    /\ prev' = cpu
    /\ last2' = last
    /\ prev2' = prev
    /\ frames' = NextFrames(cpu, r, call, arg)
    /\ ret' = NextRet(cpu, call)
    /\ cyc' = NextCyc(cpu, r, call)
    /\ steps' = steps + 1
    /\ UNCHANGED <<overflow_checks, osc, clock>>

\* the caller makes `call` and gets r
Return(r, call, arg, instr) ==
    /\ Returned(r, call, arg, instr)
    /\ UNCHANGED <<loop, twin>>

Tick ==
    /\ ~halted
    /\ steps < MaxSteps
    /\ Return(tick(cpu), "tick", 0, InstrAt(cpu))

Reset ==
    /\ ~halted
    /\ steps < MaxSteps
    /\ Return(reset(cpu), "reset", 0, "none")

Interrupt(tp) ==
    /\ ~halted
    /\ steps < MaxSteps
    /\ Return(interrupt(cpu, tp), "interrupt", tp, "none")

\* crate::Interrupt is a u8: 0 is the IRQ, anything else the NMI
Kinds == {0, 1}

----------------------------------------------------------------------------
(* Memory images *)

\* bytes laid out from base
Place(base, bytes) == [a \in {base + i - 1 : i \in 1..Len(bytes)} |-> bytes[a - base + 1]]

\* the little-endian word w at a
PlaceWord(a, w) == Place(a, <<AddrOf(w), PageOf(w)>>)

\* Vec<Byte> of length len holding the cells of f below len, kept as its non-zero cells
Image(len, f) == [len |-> len, data |-> [a \in {x \in DOMAIN f : f[x] # 0 /\ x < len} |-> f[a]]]

\* opcodes used by the images
BRK == 0
JSR == 32
RTS == 96
RTI == 64
NOP == 234
PHA == 72
PLA == 104
LDX_IMM == 162
LDY_IMM == 160
PLP == 40
SED == 248

\* where the images put the handlers and the subroutine: pages $80, $90, $40
IrqHandler == WordOfFull(0, 128)
NmiHandler == WordOfFull(0, 144)
SubAddr == WordOfFull(0, 64)

\* S3: BRK; LDX #$42; NOP at start, the IRQ/BRK handler ends with RTS or RTI
BrkImage(start, handlerEnd) ==
    PlaceWord(IRQB, IrqHandler) @@ PlaceWord(NMIB, NmiHandler) @@ PlaceWord(RESB, start)
    @@ Place(start, <<BRK, LDX_IMM, 66, NOP>>)
    @@ Place(IrqHandler, <<LDY_IMM, 67, handlerEnd>>)
    @@ Place(NmiHandler, <<RTI>>)

SubBodies == {<<>>, <<LDX_IMM, 33>>, <<PHA, PLA>>, <<PHA>>}

\* JSR sub; LDY #$22; NOP at s, sub: body; RTS
JsrImage(s, body) ==
    Place(s, <<JSR, AddrOf(SubAddr), PageOf(SubAddr), LDY_IMM, 34, NOP>>)
    @@ PlaceWord(IRQB, IrqHandler) @@ PlaceWord(NMIB, NmiHandler) @@ PlaceWord(RESB, s)
    @@ Place(SubAddr, body \o <<RTS>>)
    @@ Place(IrqHandler, <<RTI>>)
    @@ Place(NmiHandler, <<RTI>>)

Programs ==
    {[start |-> s, f |-> BrkImage(s, e)] : s \in {0, 530, 771}, e \in {RTS, RTI}}
    \cup {[start |-> s, f |-> JsrImage(s, b)] : s \in {254, 4861, 65532, 65533}, b \in SubBodies}

\* Mode::Fast, Mode::Original(n)
Fast == [orig |-> FALSE, n |-> 0]
Original(n) == [orig |-> TRUE, n |-> n]

MkCpu(pc, sp, a, x, y, status, md, m) ==
    [PC |-> pc, SP |-> sp, A |-> a, X |-> x, Y |-> y,
     C |-> BitAnd(status, C_FLAG) > 0, Z |-> BitAnd(status, Z_FLAG) > 0,
     I |-> BitAnd(status, I_FLAG) > 0, D |-> BitAnd(status, D_FLAG) > 0,
     B |-> BitAnd(status, B_FLAG) > 0, V |-> BitAnd(status, V_FLAG) > 0,
     N |-> BitAnd(status, N_FLAG) > 0, mode |-> md, addr |-> m]

\* no Oscillator has been built
NoOscillator == [last_pass |-> 0, delta |-> 0, devices |-> <<>>]

\* no second Cpu is run
NoTwin == [cpu |-> MkCpu(0, 0, 0, 0, 0, 0, Fast, Image(0, [a \in {} |-> 0])), st |-> "ok"]

GhostInit ==
    /\ halted = FALSE
    /\ last = [call |-> "none", arg |-> 0, instr |-> "none", st |-> "ok", val |-> 0]
    /\ prev = cpu
    /\ last2 = last
    /\ prev2 = cpu
    /\ frames = <<>>
    /\ ret = NoFrame
    /\ cyc = NoCycles
    /\ loop = NoLoop
    /\ osc = NoOscillator
    /\ clock = 0
    /\ twin = NoTwin
    /\ steps = 0

\* register, flag, mode and substrate settings a run starts from
Settings ==
    {[sp |-> sp, status |-> st, mode |-> Fast, len |-> WordMod] :
        sp \in {255, 1, 0}, st \in {0, 16, 103}}
    \cup {[sp |-> 127, status |-> 28, mode |-> Original(2), len |-> WordMod],
          [sp |-> 2, status |-> 119, mode |-> Original(0), len |-> WordMod],
          [sp |-> 255, status |-> 0, mode |-> Fast, len |-> 512],
          [sp |-> 255, status |-> 0, mode |-> Fast, len |-> 511],
          [sp |-> 0, status |-> 0, mode |-> Fast, len |-> 511]}

Init ==
    /\ overflow_checks \in BOOLEAN
    /\ \E p \in Programs, s \in Settings :
          cpu = MkCpu(p.start, s.sp, 17, 34, 51, s.status, s.mode, Image(s.len, p.f))
    /\ GhostInit

Next == Tick \/ Reset \/ \E tp \in Kinds : Interrupt(tp)

Spec == Init /\ [][Next]_vars

----------------------------------------------------------------------------
(* SpecStack: Cpu::stack_push and Cpu::stack_pop applied to a Cpu whose SP  *)
(* ranges over every byte.                                                 *)

PushBytes == {0, 90, 255}

\* bytes around and inside page $01, so that a stray write shows
StackImage == Place(255, <<68, 17, 18>>) @@ Place(510, <<33, 34, 51>>)

InitStack ==
    /\ overflow_checks \in BOOLEAN
    /\ \E sp \in 0..(ByteMod - 1), len \in {WordMod, 511} :
          cpu = MkCpu(0, sp, 17, 34, 51, 0, Fast, Image(len, StackImage))
    /\ GhostInit

Push(b) ==
    /\ ~halted
    /\ steps < MaxStackSteps
    /\ Return(stack_push(cpu, b), "stack_push", b, "none")

Pop ==
    /\ ~halted
    /\ steps < MaxStackSteps
    /\ Return(stack_pop(cpu), "stack_pop", 0, "none")

NextStack == (\E b \in PushBytes : Push(b)) \/ Pop

SpecStack == InitStack /\ [][NextStack]_vars

----------------------------------------------------------------------------
(* SpecInstr: one tick of a Cpu that is about to execute a given instruction *)

BCC == 144
BCS == 176
BEQ == 240
BMI == 48
BNE == 208
BPL == 16
BVC == 80
BVS == 112

BranchOpcodes == {BCC, BCS, BEQ, BMI, BNE, BPL, BVC, BVS}

\* operand bytes of the branches: both signs, the extremes
BranchOperands == {0, 5, 127, 128, 254, 255}

NoData == [a \in {} |-> 0]

\* a branch at pc: the opcode and its operand
BranchCases ==
    {[pc |-> pc, code |-> <<op, d>>, status |-> st, sp |-> 255, data |-> NoData] :
        pc \in {512, 33006, 65520}, op \in BranchOpcodes, d \in BranchOperands,
        st \in {0, 103}}

\* the stack cell i places above stack pointer sp
StackUp(sp, i) == WordOfFull(wrapping_add(sp, i), SP_PAGE)

\* status bytes found on the stack: no flag, D alone, every flag but D, every
\* flag, I with the unused bit 7
PulledStatus == {0, 8, 119, 127, 144}

\* return words found on the stack, as <<low, high>>
PulledWords == {<<52, 18>>, <<255, 0>>, <<255, 255>>}

\* an RTI that finds a status byte and a word above SP
RtiCases ==
    {[pc |-> 512, code |-> <<RTI>>, status |-> st, sp |-> sp,
      data |-> (StackUp(sp, 1) :> p) @@ (StackUp(sp, 2) :> w[1]) @@ (StackUp(sp, 3) :> w[2])] :
        st \in {0, 103}, sp \in {252, 253, 255}, p \in PulledStatus, w \in PulledWords}

\* instructions of two and three cycles: NOP, LDX #$42, PHA
SimpleCases ==
    {[pc |-> pc, code |-> code, status |-> 0, sp |-> 255, data |-> NoData] :
        pc \in {512, 33023}, code \in {<<NOP>>, <<LDX_IMM, 66>>, <<PHA>>}}

\* the bytes the opcode table does not assign
Unassigned == {b \in 0..(ByteMod - 1) : Decode(0, b).st # "ok"}

\* an unassigned byte at pc, also at the last address
BadCases ==
    {[pc |-> pc, code |-> <<b>>, status |-> 103, sp |-> 255, data |-> NoData] :
        pc \in {512, WordMod - 1}, b \in Unassigned}

\* a PLP that finds byte s above SP, for every byte s
PlpCases ==
    {[pc |-> 512, code |-> <<PLP>>, status |-> st, sp |-> sp,
      data |-> (StackUp(sp, 1) :> s)] :
        st \in {0, 103}, sp \in {253, 255}, s \in 0..(ByteMod - 1)}

\* a SED at pc, also at the last address
SedCases ==
    {[pc |-> pc, code |-> <<SED>>, status |-> st, sp |-> 255, data |-> NoData] :
        pc \in {512, WordMod - 1}, st \in {0, 103}}

\* a branch with one flag set alone and with one flag clear alone
FlagBranchCases ==
    {[pc |-> 512, code |-> <<op, d>>, status |-> st, sp |-> 255, data |-> NoData] :
        op \in BranchOpcodes, d \in {0, 5, 128},
        st \in {C_FLAG, Z_FLAG, V_FLAG, N_FLAG,
                119 - C_FLAG, 119 - Z_FLAG, 119 - V_FLAG, 119 - N_FLAG}}

InstrCases ==
    BranchCases \cup RtiCases \cup SimpleCases \cup BadCases \cup PlpCases \cup SedCases
    \cup FlagBranchCases

InitInstr ==
    /\ overflow_checks \in BOOLEAN
    /\ \E i \in InstrCases, md \in {Fast, Original(0)} :
          cpu = MkCpu(i.pc, i.sp, 17, 34, 51, i.status, md,
                      Image(WordMod, Place(i.pc, i.code) @@ i.data))
    /\ GhostInit

InstrTick ==
    /\ steps < MaxInstrSteps
    /\ ~halted
    /\ Return(tick(cpu), "tick", 0, InstrAt(cpu))

NextInstr == InstrTick

SpecInstr == InitInstr /\ [][NextInstr]_vars

----------------------------------------------------------------------------
(* SpecNop: one call of Cpu::tick_until_nop, a turn of its loop per step *)

INX == 232
JMP_ABS == 76
LDA_IMM == 169

\* where the programs of tick_until_nop start: $0200
NopStart == WordOfFull(0, 2)

\* prefix; loop: INX; BEQ done; JSR sub; JMP loop; done: NOP -- sub: RTS
CountingProgram(prefix) ==
    LET l == NopStart + Len(prefix)
    IN  Place(NopStart, prefix \o <<INX, BEQ, 6, JSR, AddrOf(SubAddr), PageOf(SubAddr),
                                    JMP_ABS, AddrOf(l), PageOf(l), NOP>>)
        @@ Place(SubAddr, <<RTS>>)

\* the programs tick_until_nop is called on, with the length of the memory
\* and the X register they start with
NopPrograms ==
    {[len |-> WordMod, x |-> 0, f |-> Place(NopStart, code)] :
        code \in {<<NOP>>, <<LDX_IMM, 66, LDY_IMM, 67, NOP>>,
                  <<JMP_ABS, AddrOf(NopStart), PageOf(NopStart)>>,
                  <<2>>, <<LDX_IMM, 66, 255, NOP>>,
                  <<SED, NOP>>, <<LDA_IMM, 8, PHA, PLP, NOP>>,
                  <<>>}}
    \cup {[len |-> 514, x |-> 0, f |-> Place(NopStart, <<LDX_IMM, 66, NOP>>)]}
    \cup {[len |-> WordMod, x |-> x, f |-> CountingProgram(prefix)] :
            x \in {150, 250}, prefix \in {<<LDY_IMM, 1>>, <<PHA>>}}

InitNop ==
    /\ overflow_checks \in BOOLEAN
    /\ \E p \in NopPrograms, md \in {Fast, Original(0)} :
          cpu = MkCpu(NopStart, 255, 17, p.x, 51, 0, md, Image(p.len, p.f))
    /\ halted = FALSE
    /\ last = [call |-> "none", arg |-> 0, instr |-> "none", st |-> "ok", val |-> 0]
    /\ prev = cpu
    /\ last2 = last
    /\ prev2 = cpu
    /\ frames = <<>>
    /\ ret = NoFrame
    /\ cyc = NoCycles
    /\ loop = [count |-> 0, st |-> "running", ticks |-> 0]
    /\ osc = NoOscillator
    /\ clock = 0
    /\ twin = NoTwin
    /\ steps = 0

\* one turn of the loop of tick_until_nop
NopStep ==
    /\ loop.st = "running"
    /\ \E r \in {tick_until_nop_step(cpu, loop.count)} :
           /\ loop' = [count |-> r.count, st |-> r.st,
                       ticks |-> loop.ticks + (IF r.ticked THEN 1 ELSE 0)]
           /\ IF r.ticked
              THEN Returned(r.t, "tick", 0, InstrAt(cpu)) /\ UNCHANGED twin
              ELSE UNCHANGED <<cpu, overflow_checks, halted, last, prev, last2, prev2,
                               frames, ret, cyc, osc, clock, twin, steps>>

NextNop == NopStep

\* the caller waits for the call: the loop keeps turning
SpecNop == InitNop /\ [][NextNop]_vars /\ WF_vars(NextNop)

----------------------------------------------------------------------------
(* Helpers of the properties *)

\* the cells in which two substrates differ
Changed(m1, m2) ==
    {a \in DOMAIN m1.data \cup DOMAIN m2.data : MemRead(m1, a) # MemRead(m2, a)}

Regs == {"PC", "SP", "A", "X", "Y"}
Flags == {"C", "Z", "I", "D", "B", "V", "N"}

\* the stack cell at stack pointer sp, i places further down
StackCell(sp, i) == WordOfFull(wrapping_sub(sp, i), SP_PAGE)

----------------------------------------------------------------------------
(* C1 *)

\* C1: for every byte b and every initial SP (0 and $FF included), stack_push(b)
\* followed by stack_pop() on a substrate that backs the cell $0100|SP succeeds
\* twice (no stack-overflow error), returns b, restores SP, and changes no
\* memory cell other than $0100|SP, which holds b.
C1_StackSymmetry ==
    (/\ last.call = "stack_pop"
     /\ last2.call = "stack_push"
     /\ inside_bounds(prev2.addr, StackCell(prev2.SP, 0)))
    => /\ last2.st = "ok"
       /\ last.st = "ok"
       /\ last.val = last2.arg
       /\ cpu.SP = prev2.SP
       /\ prev.SP = wrapping_sub(prev2.SP, 1)
       /\ Changed(prev2.addr, cpu.addr) \subseteq {StackCell(prev2.SP, 0)}
       /\ MemRead(cpu.addr, StackCell(prev2.SP, 0)) = last2.arg
       /\ ~halted

\* a push at SP = $00 wrapped to $FF and the pop wrapped back
C1_Witness ==
    /\ last.call = "stack_pop"
    /\ last2.call = "stack_push"
    /\ prev2.SP = 0
    /\ prev.SP = 255
    /\ cpu.SP = 0
    /\ last.val = 255
    /\ last2.arg = 255

\* every cell of the set is backed by the substrate of c
Backed(c, cells) == \A a \in cells : inside_bounds(c.addr, a)

\* the tick of prev fetched and executed instruction op
Executed(op) == last.call = "tick" /\ last.instr = op

----------------------------------------------------------------------------
(* C2 *)

\* C2: a tick that executes JSR t at s (s + 3 an address, operand and stack
\* cells backed) pushes the high byte of s + 2 at $0100|SP, then its low byte
\* one cell below, leaves SP two lower and PC = t; and an RTS that finds that
\* frame untouched, with SP back where the JSR left it, leaves PC = s + 3 and
\* SP equal to its value before the JSR.
C2_JsrRts ==
    /\ (/\ Executed("Jsr")
        /\ prev.PC + 3 < WordMod
        /\ Backed(prev, {prev.PC + 1, prev.PC + 2} \cup FrameCells(prev.SP, 2)))
       => /\ last.st = "ok"
          /\ MemRead(cpu.addr, StackCell(prev.SP, 0)) = PageOf(prev.PC + 2)
          /\ MemRead(cpu.addr, StackCell(prev.SP, 1)) = AddrOf(prev.PC + 2)
          /\ cpu.SP = wrapping_sub(prev.SP, 2)
          /\ cpu.PC = WordOfFull(MemRead(prev.addr, prev.PC + 1), MemRead(prev.addr, prev.PC + 2))
    /\ (/\ Executed("Rts")
        /\ ret.kind = "jsr"
        /\ ret.clean
        /\ prev.SP = wrapping_sub(ret.sp, 2)
        /\ ret.site + 3 < WordMod)
       => /\ last.st = "ok"
          /\ cpu.PC = ret.site + 3
          /\ cpu.SP = ret.sp

\* JSR at SP = $00 (the second push wraps to $01FF), a body that pushes and
\* pulls, and the RTS back to s + 3
C2_Witness ==
    /\ Executed("Rts")
    /\ ret.kind = "jsr"
    /\ ret.clean
    /\ ret.sp = 0
    /\ last2.instr = "Pla"
    /\ PageOf(ret.site + 2) # AddrOf(ret.site + 2)
    /\ cpu.PC = ret.site + 3
    /\ cpu.SP = 0

----------------------------------------------------------------------------
(* C3 *)

\* an operand byte read as a signed offset
Signed(b) == IF b >= 128 THEN b - 256 ELSE b

\* C3: a branch whose condition holds leaves PC = P + d, P the address after
\* the operand and d the operand byte read as a signed offset in [-128, 127];
\* operand bytes $80..$FF branch backwards.
C3_BranchDisplacement ==
    (/\ last.call = "tick"
     /\ last.instr \in BranchOps
     /\ BranchCond(prev, last.instr)
     /\ prev.PC + 2 + Signed(MemRead(prev.addr, prev.PC + 1)) \in 0..(WordMod - 1))
    => /\ last.st = "ok"
       /\ cpu.PC = prev.PC + 2 + Signed(MemRead(prev.addr, prev.PC + 1))

----------------------------------------------------------------------------
(* C4 *)

\* the little-endian word the substrate of c holds at a
WordAt(c, a) == WordOfFull(MemRead(c.addr, a), MemRead(c.addr, a + 1))

\* the registers, flags and mode that `keep` names are equal in c1 and c2
Same(c1, c2, keep) == \A f \in keep : c1[f] = c2[f]

\* prev was called with interrupt(tp) and the three stack cells and the vector
\* are backed
InterruptCalled(tp, vector) ==
    /\ last.call = "interrupt"
    /\ last.arg = tp
    /\ Backed(prev, FrameCells(prev.SP, 3) \cup {vector, vector + 1})

\* C4 (amended): interrupt(IRQ) called with I = false, PC = p, SP = s writes the
\* high byte of p - 1 to $0100|s, the low byte of p - 1 to $0100|(s-1) and the
\* status byte as it was before the call to $0100|(s-2), writes no other cell,
\* leaves SP = s - 3 (mod 256), sets I, sets PC to the word at $FFFE/$FFFF and
\* leaves A, X, Y, the other flags and the mode alone.  At p = $0000 the
\* subtraction overflows: with overflow checks the call panics before it
\* changes anything, without them the bytes pushed are $FF, $FF.
C4_IrqPushesReturn ==
    (InterruptCalled(0, IRQB) /\ ~prev.I)
    => IF prev.PC = 0 /\ overflow_checks
       THEN last.st = "panic" /\ halted /\ cpu = prev
       ELSE LET q == (prev.PC + WordMod - 1) % WordMod
            IN  /\ last.st = "ok"
                /\ ~halted
                /\ MemRead(cpu.addr, StackCell(prev.SP, 0)) = PageOf(q)
                /\ MemRead(cpu.addr, StackCell(prev.SP, 1)) = AddrOf(q)
                /\ MemRead(cpu.addr, StackCell(prev.SP, 2)) = status_get(prev)
                /\ Changed(prev.addr, cpu.addr) \subseteq FrameCells(prev.SP, 3)
                /\ cpu.SP = wrapping_sub(prev.SP, 3)
                /\ cpu.I
                /\ cpu.PC = WordAt(prev, IRQB)
                /\ Same(cpu, prev, {"A", "X", "Y", "C", "Z", "D", "B", "V", "N", "mode"})

\* an IRQ taken inside the subroutine at $4000: the frame holds $3F, $FF
C4_Witness ==
    /\ InterruptCalled(0, IRQB)
    /\ ~prev.I
    /\ last.st = "ok"
    /\ prev.PC = SubAddr
    /\ MemRead(cpu.addr, StackCell(prev.SP, 0)) = PageOf(SubAddr) - 1
    /\ MemRead(cpu.addr, StackCell(prev.SP, 1)) = 255
    /\ cpu.PC = IrqHandler
    /\ cpu.I

\* C4 as stated: the frame holds the high and the low byte of p itself.
C4_IrqPushesPC ==
    (InterruptCalled(0, IRQB) /\ ~prev.I)
    => /\ last.st = "ok"
       /\ MemRead(cpu.addr, StackCell(prev.SP, 0)) = PageOf(prev.PC)
       /\ MemRead(cpu.addr, StackCell(prev.SP, 1)) = AddrOf(prev.PC)
       /\ MemRead(cpu.addr, StackCell(prev.SP, 2)) = status_get(prev)
       /\ cpu.SP = wrapping_sub(prev.SP, 3)
       /\ cpu.I
       /\ cpu.PC = WordAt(prev, IRQB)

----------------------------------------------------------------------------
(* C5 *)

\* C5: an interrupt request is delivered iff it is an NMI or I is clear:
\* interrupt(IRQ) with I set returns Ok and changes no register, flag or cell,
\* and every other request returns Ok, pushes three bytes and loads PC from the
\* vector of its kind ($FFFA for the NMI, whatever I is).
C5_Delivery ==
    /\ (InterruptCalled(0, IRQB) /\ prev.I)
       => last.st = "ok" /\ cpu = prev
    /\ (InterruptCalled(0, IRQB) /\ ~prev.I)
       => /\ last.st = "ok"
          /\ cpu.SP = wrapping_sub(prev.SP, 3)
          /\ cpu.PC = WordAt(prev, IRQB)
    /\ InterruptCalled(1, NMIB)
       => /\ last.st = "ok"
          /\ cpu.SP = wrapping_sub(prev.SP, 3)
          /\ cpu.PC = WordAt(prev, NMIB)

----------------------------------------------------------------------------
(* C6 *)

\* C6: a tick that executes BRK, in every flag state, pushes three bytes, the
\* third a status byte with the B bit set, and loads PC from $FFFE/$FFFF.
C6_BrkForces ==
    (/\ Executed("Brk")
     /\ prev.PC + 1 < WordMod
     /\ Backed(prev, FrameCells(prev.SP, 3) \cup {IRQB, IRQB + 1}))
    => /\ last.st = "ok"
       /\ cpu.SP = wrapping_sub(prev.SP, 3)
       /\ BitAnd(MemRead(cpu.addr, StackCell(prev.SP, 2)), B_FLAG) = B_FLAG
       /\ cpu.PC = WordAt(prev, IRQB)

----------------------------------------------------------------------------
(* C7 *)

\* the RTS of prev returns through the frame of a BRK, left untouched, with SP
\* where the BRK left it
RtsAfterBrk ==
    /\ Executed("Rts")
    /\ ret.kind = "brk"
    /\ ret.clean
    /\ prev.SP = wrapping_sub(ret.sp, 3)

----------------------------------------------------------------------------
(* C8 *)

\* C8: a tick that executes RTI with a status byte, a low byte and a high byte
\* above SP (the word below $FFFF) pops the three, SP three higher (mod 256),
\* sets the seven flags from the bits of the status byte, and leaves
\* PC = ((high << 8) | low) + 1.
C8_RtiPops ==
    (/\ Executed("Rti")
     /\ Backed(prev, {StackUp(prev.SP, i) : i \in 1..3})
     /\ WordOfFull(MemRead(prev.addr, StackUp(prev.SP, 2)),
                   MemRead(prev.addr, StackUp(prev.SP, 3))) + 1 < WordMod)
    => /\ last.st = "ok"
       /\ ~halted
       /\ cpu.SP = wrapping_add(prev.SP, 3)
       /\ status_get(cpu) = BitAnd(MemRead(prev.addr, StackUp(prev.SP, 1)), 127)
       /\ cpu.PC = WordOfFull(MemRead(prev.addr, StackUp(prev.SP, 2)),
                              MemRead(prev.addr, StackUp(prev.SP, 3))) + 1

----------------------------------------------------------------------------
(* C9 *)

\* reset() was called on prev
ResetCalled == last.call = "reset"

\* C9: from any state whose substrate backs $FFFC and $FFFD, reset() returns
\* Ok and leaves PC = mem[$FFFC] | (mem[$FFFD] << 8), SP = $FF, A = X = Y = 0,
\* I = D = B = false, memory unchanged, and in Original mode the counter of
\* remaining cycles at 0, so that the next tick fetches an instruction; Fast
\* mode stays Fast.
C9_Reset ==
    (ResetCalled /\ Backed(prev, {RESB, RESB + 1}))
    => /\ last.st = "ok"
       /\ ~halted
       /\ cpu.PC = WordAt(prev, RESB)
       /\ cpu.SP = SP_ADDR
       /\ cpu.A = 0 /\ cpu.X = 0 /\ cpu.Y = 0
       /\ ~cpu.I /\ ~cpu.D /\ ~cpu.B
       /\ cpu.addr = prev.addr
       /\ cpu.mode = (IF prev.mode.orig THEN Original(0) ELSE Fast)
       /\ InstrAt(cpu) # "burn"

\* a reset in Original mode with cycles left to burn, I, D and B set, SP not
\* $FF and the registers loaded
C9_Witness ==
    /\ ResetCalled
    /\ last.st = "ok"
    /\ prev.mode.orig /\ prev.mode.n > 0
    /\ prev.I /\ prev.D /\ prev.B
    /\ prev.SP = 127
    /\ prev.A = 17
    /\ cpu.SP = SP_ADDR
    /\ cpu.A = 0
    /\ cpu.mode = Original(0)
    /\ ~cpu.D

----------------------------------------------------------------------------
(* C10 *)

\* C10: reset() called twice in a row leaves PC, SP, A, X, Y, the seven flags
\* and the mode (and the memory, and the result) as one reset() left them,
\* from every state, also one whose reset vector cannot be read.
C10_ResetIdempotent ==
    (ResetCalled /\ last2.call = "reset")
    => /\ Same(cpu, prev, Regs \cup Flags \cup {"mode", "addr"})
       /\ last.st = last2.st
       /\ ~halted

\* two resets after a JSR: the first one changed PC, SP and A, the second
\* nothing
C10_Witness ==
    /\ ResetCalled
    /\ last2.call = "reset"
    /\ last.st = "ok"
    /\ prev2.PC = SubAddr
    /\ prev2.SP # SP_ADDR
    /\ prev2.A = 17
    /\ prev.PC # prev2.PC
    /\ cpu.PC = prev.PC
    /\ cpu.SP = SP_ADDR
    /\ cpu.A = 0

----------------------------------------------------------------------------
(* C11 *)

\* the cycles the table gives the opcode at the PC of c
BaseCycles(c) == read_op(c).val.cycles

----------------------------------------------------------------------------
(* C12 *)

\* the ticks the branch executed by the last tick occupies in Original mode:
\* its fetch tick and the cycles left to burn
BranchTicks == 1 + cpu.mode.n

\* C12: in Original mode a branch takes 2 cycles when it is not taken, 3 when
\* it is taken to a target in the page of the byte after its operand, and 4
\* when it is taken to a target in another page.
C12_BranchCycles ==
    (/\ last.call = "tick"
     /\ last.instr \in BranchOps
     /\ prev.mode.orig
     /\ last.st = "ok")
    => BranchTicks = (IF ~BranchCond(prev, last.instr) THEN 2
                      ELSE IF PageOf(cpu.PC) = PageOf(prev.PC + 2) THEN 3
                      ELSE 4)

----------------------------------------------------------------------------
(* C13 *)

\* what holds of tick_until_nop at every turn of its loop
UntilNopSafe ==
    /\ loop.ticks <= LoopLimit
    /\ loop.st = "running" => loop.ticks = loop.count
    /\ (loop.st = "running" /\ loop.ticks > 0)
       => last.st = "ok" /\ read_op(prev).val.op # "Nop"
    /\ loop.st = "ok"
       => /\ read_op(cpu).st = "ok"
          /\ read_op(cpu).val.op = "Nop"
          /\ (loop.ticks > 0 => last.st = "ok" /\ read_op(prev).val.op # "Nop")
    /\ loop.st = "endless Loop"
       => /\ loop.ticks = LoopLimit
          /\ read_op(cpu).st = "ok"
          /\ read_op(cpu).val.op # "Nop"
    /\ loop.st \notin {"idle", "running", "ok", "endless Loop"}
       => \/ loop.st = read_op(cpu).st /\ loop.st # "panic"
          \/ loop.st = last.st /\ last.call = "tick"

----------------------------------------------------------------------------
(* C14 *)

\* the tick of prev fetched (no cycle left to burn) the readable byte b
Fetched(b) ==
    /\ last.call = "tick"
    /\ ~(prev.mode.orig /\ prev.mode.n > 0)
    /\ inside_bounds(prev.addr, prev.PC)
    /\ MemRead(prev.addr, prev.PC) = b

\* C14: when the byte b at PC is not an assigned opcode, tick() returns
\* BadOpCode(b) and leaves the registers, the flags, the remaining-cycle
\* counter and the memory as they were.
C14_BadOpCode ==
    \A b \in Unassigned :
        Fetched(b) => /\ last.st = "BadOpCode"
                      /\ last.val = b
                      /\ cpu = prev
                      /\ ~halted

\* the byte $FF at $FFFF, ticked twice in Original mode: the same error twice
C14_Witness ==
    /\ Fetched(255)
    /\ prev.PC = WordMod - 1
    /\ prev.mode.orig
    /\ last.st = "BadOpCode"
    /\ last2.st = "BadOpCode"
    /\ last2.call = "tick"
    /\ prev2 = cpu

----------------------------------------------------------------------------
(* bus.rs: a Bus is the list of its devices in the order of connect; a     *)
(* device is a route [start, end] and the Memory behind it. The name of a  *)
(* device is never read.                                                   *)

Device(start, end, mem) == [start |-> start, end |-> end, mem |-> mem]

\* Addressable::inside_bounds for Bus: true as soon as one device holds
\* addr; the routes are not consulted and addr is not made relative
Bus_inside_bounds(b, addr) == \E i \in 1..Len(b) : inside_bounds(b[i].mem, addr)

\* mutant of Routed: the last matching route wins
Routed_last(b, index) ==
    LET R == {i \in 1..Len(b) : b[i].start <= index /\ index <= b[i].end}
    IN  IF R = {} THEN 0 ELSE CHOOSE i \in R : \A j \in R : i >= j

\* the first device, in the order of connect, whose route contains index;
\* 0 when the loop ends without one
Routed(b, index) ==
    LET R == {i \in 1..Len(b) : b[i].start <= index /\ index <= b[i].end}
    IN  IF R = {} THEN 0 ELSE CHOOSE i \in R : \A j \in R : i <= j

\* Index<Word> for Bus: the device is indexed with the absolute index; the
\* Vec behind a Memory panics past its length, the Bus panics without a route
Bus_index(b, index) ==
    LET i == Routed(b, index)
    IN  IF i = 0 THEN [st |-> "panic", val |-> 0]
        ELSE IF ~(index < b[i].mem.len) THEN [st |-> "panic", val |-> 0]
        ELSE [st |-> "ok", val |-> MemRead(b[i].mem, index)]

\* IndexMut<Word> for Bus, followed by the assignment of value
Bus_index_mut(b, index, value) ==
    LET i == Routed(b, index)
    IN  IF i = 0 THEN [st |-> "panic", val |-> b]
        ELSE IF ~(index < b[i].mem.len) THEN [st |-> "panic", val |-> b]
        ELSE [st |-> "ok", val |-> [b EXCEPT ![i].mem = MemWrite(@, index, value)]]

\* Cpu::read of a Cpu whose substrate is a Bus
bus_read(c, addr) ==
    IF Bus_inside_bounds(c.addr, addr)
    THEN LET r == Bus_index(c.addr, addr)
         IN  IF r.st = "ok" THEN Ok(c, r.val) ELSE Panic(c)
    ELSE Err(c, "OutOfBounds", addr)

\* Cpu::write of a Cpu whose substrate is a Bus
bus_write(c, addr, value) ==
    IF Bus_inside_bounds(c.addr, addr)
    THEN LET r == Bus_index_mut(c.addr, addr, value)
         IN  IF r.st = "ok" THEN Ok([c EXCEPT !.addr = r.val], 0) ELSE Panic(c)
    ELSE Err(c, "OutOfBounds", addr)

----------------------------------------------------------------------------
(* SpecBus: Cpu::read and Cpu::write applied to a Cpu built over a Bus.    *)

MaxBusSteps == 2

\* Memory::default(): 65,536 zero bytes; Memory::using(vec![..]) of n bytes
DefaultMemory == Image(WordMod, Place(0, <<7>>) @@ Place(WordOfFull(0, 128), <<9, 8>>))
SmallMemory(n) == Image(n, Place(0, <<5, 6>>))

\* the buses a sequence of connect calls builds
Buses ==
    {<<Device(0, WordMod - 1, DefaultMemory)>>,
     <<Device(WordOfFull(0, 128), WordMod - 1, DefaultMemory)>>,
     <<Device(0, 15, SmallMemory(16))>>,
     <<Device(WordOfFull(0, 2), WordOfFull(255, 2), SmallMemory(256))>>,
     <<Device(0, 15, SmallMemory(16)), Device(WordOfFull(0, 128), WordMod - 1, DefaultMemory)>>,
     <<Device(0, 255, SmallMemory(16)), Device(0, WordMod - 1, DefaultMemory)>>,
     <<>>}

BusAddrs == {0, 15, 16, 255, 256, WordOfFull(0, 2), WordOfFull(0, 128) - 1,
             WordOfFull(0, 128), WordOfFull(1, 128), WordMod - 1}

BusBytes == {0, 77}

InitBus ==
    /\ overflow_checks \in BOOLEAN
    /\ \E b \in Buses : cpu = MkCpu(0, SP_ADDR, 17, 34, 51, 0, Fast, b)
    /\ GhostInit

BusRead(a) ==
    /\ ~halted
    /\ steps < MaxBusSteps
    /\ Return(bus_read(cpu, a), "read", a, "none")

BusWrite(a, v) ==
    /\ ~halted
    /\ steps < MaxBusSteps
    /\ Return(bus_write(cpu, a, v), "write", a, "none")

NextBus == (\E a \in BusAddrs : BusRead(a)) \/ (\E a \in BusAddrs, v \in BusBytes : BusWrite(a, v))

SpecBus == InitBus /\ [][NextBus]_vars

----------------------------------------------------------------------------
(* C15 *)

\* the last call was a read or a write of an address outside every route
Unrouted ==
    /\ last.call \in {"read", "write"}
    /\ Routed(prev.addr, last.arg) = 0

\* C15: for a Cpu whose substrate is a Bus, a read or write of an address
\* that no route [start, end] contains ends with OutOfBounds(addr), never
\* with an abort, and a failed write leaves every device byte unchanged.
C15_BusOutOfBounds ==
    Unrouted => /\ last.st = "OutOfBounds"
                /\ last.val = last.arg
                /\ ~halted
                /\ cpu.addr = prev.addr

----------------------------------------------------------------------------
(* C16 *)

\* the status byte that the PLP or RTI of prev finds above SP
Pulled == MemRead(prev.addr, StackUp(prev.SP, 1))

\* the tick of prev reached the arm of PLP or RTI and pulled a byte with the
\* decimal bit
PulledDecimal ==
    /\ Executed("Plp") \/ Executed("Rti")
    /\ fetch_op(prev).st = "ok"
    /\ Backed(prev, {StackUp(prev.SP, 1)})
    /\ BitAnd(Pulled, D_FLAG) > 0

\* C16: when PLP or RTI pulls a status byte whose decimal bit is set, the tick
\* returns a typed error value to the caller; it does not panic.
C16_DecimalError ==
    PulledDecimal => /\ last.st \notin {"ok", "panic"}
                     /\ ~halted

----------------------------------------------------------------------------
(* C17 *)

\* the tick of prev fetched SED and reached its arm
SedExecuted == Executed("Sed") /\ fetch_op(prev).st = "ok"

\* C17: whenever the executed instruction is SED, tick() returns an error
\* value, never Ok, in Fast and in Original mode.
C17_SedFails ==
    SedExecuted => /\ last.st \notin {"ok", "panic"}
                   /\ ~halted

\* a SED executed in Original mode returned the error and left D set
C17_Witness ==
    /\ SedExecuted
    /\ prev.mode.orig
    /\ last.st = "Other"
    /\ cpu.D
    /\ ~prev.D

----------------------------------------------------------------------------
(* C18 *)

\* the tick of prev reached the arm of PLP with a readable byte above SP
PlpExecuted ==
    /\ Executed("Plp")
    /\ fetch_op(prev).st = "ok"
    /\ Backed(prev, {StackUp(prev.SP, 1)})

\* the seven flags of c are the bits of s: C = bit 6, Z = bit 5, I = bit 4,
\* D = bit 3, B = bit 2, V = bit 1, N = bit 0
FlagsAre(c, s) ==
    /\ c.C = (Bit(s, 6) = 1)
    /\ c.Z = (Bit(s, 5) = 1)
    /\ c.I = (Bit(s, 4) = 1)
    /\ c.D = (Bit(s, 3) = 1)
    /\ c.B = (Bit(s, 2) = 1)
    /\ c.V = (Bit(s, 1) = 1)
    /\ c.N = (Bit(s, 0) = 1)

\* C18: for every byte s pulled from the stack, $FF included, PLP completes
\* successfully and sets each of the seven flags to its bit of s.
C18_PlpSetsFlags ==
    PlpExecuted => /\ last.st = "ok"
                   /\ ~halted
                   /\ FlagsAre(cpu, Pulled)

----------------------------------------------------------------------------
(* SpecStatus: status_set(status_get()) applied to a Cpu in each of the    *)
(* 128 assignments of the seven flags. D = true is the state SED leaves.   *)

MaxStatusSteps == 2

InitStatus ==
    /\ overflow_checks \in BOOLEAN
    /\ \E st \in 0..(2 ^ 7 - 1), md \in {Fast, Original(0)} :
          cpu = MkCpu(0, SP_ADDR, 17, 34, 51, st, md, Image(WordMod, NoData))
    /\ GhostInit

StatusRoundTrip ==
    /\ ~halted
    /\ steps < MaxStatusSteps
    /\ Return(status_set(cpu, status_get(cpu)), "status_set", status_get(cpu), "none")

NextStatus == StatusRoundTrip

SpecStatus == InitStatus /\ [][NextStatus]_vars

----------------------------------------------------------------------------
(* C19 *)

\* C19: for every one of the 128 assignments of the flags C, Z, I, D, B, V, N,
\* those with D = true included, status_set(status_get()) completes and
\* leaves every flag unchanged.
C19_StatusInvolution ==
    last.call = "status_set" => /\ last.st = "ok"
                                /\ ~halted
                                /\ cpu = prev

----------------------------------------------------------------------------
(* SpecAddress: the conversions of cpu/address.rs applied to every 16-bit  *)
(* word, held in PC. No u16 arithmetic is involved, so one build is drawn.  *)

MaxAddressSteps == 2

InitAddress ==
    /\ overflow_checks = FALSE
    /\ \E w \in 0..(WordMod - 1) :
          cpu = MkCpu(w, SP_ADDR, 17, 34, 51, 0, Fast, Image(WordMod, NoData))
    /\ GhostInit

\* Address::from(PC), then Word::from of that Address::Full, stored in PC
SplitCombine ==
    /\ steps < MaxAddressSteps
    /\ \E a \in {<<AddrOf(cpu.PC), PageOf(cpu.PC)>>} :
          Return(Ok([cpu EXCEPT !.PC = WordOfFull(a[1], a[2])], a), "from_word", cpu.PC, "none")

\* Word::from(Address::Zero(b)) for the low byte b of PC, stored in PC
ZeroPage ==
    /\ steps < MaxAddressSteps
    /\ \E b \in {AddrOf(cpu.PC)} :
          Return(Ok([cpu EXCEPT !.PC = WordOfZero(b)], <<b>>), "from_zero", b, "none")

NextAddress == SplitCombine \/ ZeroPage

SpecAddress == InitAddress /\ [][NextAddress]_vars

----------------------------------------------------------------------------
(* C20 *)

\* C20: for every 16-bit word w, splitting w into Address::Full(low, high)
\* and converting back yields w, with low = w & 0xFF and high = w >> 8; and
\* Address::Zero(b) converts to the word b.
C20_AddressRoundTrip ==
    /\ last.call = "from_word"
       => /\ last.val = <<BitAnd(last.arg, 255), last.arg \div (2 ^ 8)>>
          /\ cpu.PC = last.arg
          /\ cpu = prev
    /\ last.call = "from_zero"
       => /\ cpu.PC = last.arg
          /\ last.arg \in 0..(ByteMod - 1)

\* the word $8866 was split into Full($66, $88) and combined again, twice
C20_Witness ==
    /\ last.call = "from_word"
    /\ WordOfFull(102, 136) = last.arg
    /\ last.val = <<102, 136>>
    /\ cpu.PC = last.arg
    /\ last2.call = "from_word"
    /\ last2.arg = last.arg

----------------------------------------------------------------------------
(* SpecArith: one tick of ADC or SBC, for every accumulator, operand bytes *)
(* spread over the whole range and both values of the carry.               *)

MaxArithSteps == 1

ADC_IMM == 105
ADC_ZP == 101
ADC_ABS == 109
SBC_IMM == 233
SBC_ZP == 229

Bytes == 0..(ByteMod - 1)

\* bytes at the edges of the unsigned and of the signed range
EdgeBytes == {0, 1, 80, 127, 128, 208, 255}

\* operand bytes: every fifth byte and the edges
OperandBytes == {m \in Bytes : m % 5 = 0} \cup EdgeBytes

\* a Cpu at $0200 with accumulator a and flags st, about to execute code
ArithCpu(code, a, st, md, data) ==
    MkCpu(512, SP_ADDR, a, 34, 51, st, md, Image(WordMod, Place(512, code) @@ data))

\* immediate mode over the whole range; the edges with other flags set, in
\* Original mode and both builds; zero-page and absolute mode
InitArith ==
    /\ \/ /\ overflow_checks = FALSE
          /\ \E op \in {ADC_IMM, SBC_IMM}, a \in Bytes, m \in OperandBytes, c \in {0, 1} :
                cpu = ArithCpu(<<op, m>>, a, c * C_FLAG, Fast, NoData)
       \/ /\ overflow_checks \in BOOLEAN
          /\ \E op \in {ADC_IMM, SBC_IMM}, a \in EdgeBytes, m \in EdgeBytes,
                st \in {2, 55, 66, 119} :
                cpu = ArithCpu(<<op, m>>, a, st, Original(0), NoData)
       \/ /\ overflow_checks = TRUE
          /\ \E code \in {<<ADC_ZP, 68>>, <<SBC_ZP, 68>>, <<ADC_ABS, 52, 18>>},
                a \in EdgeBytes, m \in EdgeBytes, st \in {0, 64} :
                cpu = ArithCpu(code, a, st, Fast, (68 :> m) @@ (4660 :> m))
    /\ GhostInit

ArithTick ==
    /\ steps < MaxArithSteps
    /\ ~halted
    /\ Return(tick(cpu), "tick", 0, InstrAt(cpu))

NextArith == ArithTick

SpecArith == InitArith /\ [][NextArith]_vars

----------------------------------------------------------------------------
(* C21 *)

\* the address and the byte that the instruction at PC of c operates on
OperandOf(c) ==
    CHOOSE y \in {fetch_operand(f.cpu, f.val.mode) : f \in {fetch_op(c)}} : TRUE

\* the tick of prev reached the arm of op and read its operand
Operated(op) ==
    /\ Executed(op)
    /\ fetch_op(prev).st = "ok"
    /\ OperandOf(prev).st = "ok"

\* the operand byte of the instruction of prev
M == OperandOf(prev).val[2]

\* the carry of prev as a number
CarryIn == IF prev.C THEN 1 ELSE 0

\* Z and N of c describe byte r
ZnOf(c, r) == c.Z = (r = 0) /\ c.N = (Bit(r, 7) = 1)

\* C21: for all bytes a, m and carry-in c, ADC with A = a, operand m and
\* C = c leaves A = (a + m + c) mod 256, C iff a + m + c > 255, Z iff the new
\* A is 0 and N iff bit 7 of the new A is set.
C21_Adc ==
    Operated("Adc") =>
        /\ last.st = "ok"
        /\ cpu.A = (prev.A + M + CarryIn) % ByteMod
        /\ cpu.C = (prev.A + M + CarryIn > ByteMod - 1)
        /\ ZnOf(cpu, cpu.A)

\* $FF + $00 with the carry set: the carry comes from the second addition
C21_Witness ==
    /\ Operated("Adc")
    /\ prev.A = 255 /\ M = 0 /\ prev.C
    /\ cpu.A = 0 /\ cpu.C /\ cpu.Z /\ ~cpu.N

----------------------------------------------------------------------------
(* C22 *)

\* bit 7 of byte b is set
Bit7(b) == BitAnd(b, 128) # 0

\* C22: after ADC, V is true iff (~(A XOR M) AND (A XOR result) AND 0x80) != 0,
\* and after SBC, V is true iff ((A XOR M) AND (A XOR result) AND 0x80) != 0,
\* with A the accumulator before, M the operand, result the new accumulator.
C22_Overflow ==
    /\ Operated("Adc")
       => cpu.V = (~Bit7(BitXor(prev.A, M)) /\ Bit7(BitXor(prev.A, cpu.A)))
    /\ Operated("Sbc")
       => cpu.V = (Bit7(BitXor(prev.A, M)) /\ Bit7(BitXor(prev.A, cpu.A)))

----------------------------------------------------------------------------
(* C23 *)

\* the borrow that the carry of prev stands for: 1 - C
BorrowIn == 1 - CarryIn

\* C23: for all bytes a, m and carry c, SBC with A = a, operand m and C = c
\* leaves A = (a - m - (1 - c)) mod 256, C iff no borrow occurred
\* (a >= m + (1 - c)), Z iff the new A is 0 and N iff bit 7 of the new A is set.
C23_Sbc ==
    Operated("Sbc") =>
        /\ last.st = "ok"
        /\ cpu.A = (prev.A - M - BorrowIn + 2 * ByteMod) % ByteMod
        /\ cpu.C = (prev.A >= M + BorrowIn)
        /\ ZnOf(cpu, cpu.A)

\* $80 - $80 with the carry clear: the borrow comes from the second
\* subtraction and the result wraps to $FF
C23_Witness ==
    /\ Operated("Sbc")
    /\ prev.A = 128 /\ M = 128 /\ ~prev.C
    /\ cpu.A = 255 /\ ~cpu.C /\ ~cpu.Z /\ cpu.N

----------------------------------------------------------------------------
(* SpecCmp: one tick of CMP, CPX or CPY, for every value of the register   *)
(* and operand bytes spread over the whole range.                          *)

MaxCmpSteps == 1

CMP_IMM == 201
CMP_ZP == 197
CPX_IMM == 224
CPY_IMM == 192

\* the register that compare instruction op reads
CmpReg == (CMP_IMM :> "A") @@ (CMP_ZP :> "A") @@ (CPX_IMM :> "X") @@ (CPY_IMM :> "Y")

\* a Cpu at $0200 whose register CmpReg[code[1]] holds v
CmpCpu(code, v, st, md, data) ==
    SetReg(MkCpu(512, SP_ADDR, 17, 34, 51, st, md, Image(WordMod, Place(512, code) @@ data)),
           CmpReg[code[1]], v)

\* immediate mode over the whole range; the edges with other flags set, in
\* both modes and both builds, the zero-page operand at address m
InitCmp ==
    /\ \/ /\ overflow_checks = FALSE
          /\ \E op \in {CMP_IMM, CPX_IMM, CPY_IMM}, v \in Bytes, m \in OperandBytes :
                cpu = CmpCpu(<<op, m>>, v, 0, Fast, NoData)
       \/ /\ overflow_checks \in BOOLEAN
          /\ \E op \in DOMAIN CmpReg, v \in EdgeBytes, m \in EdgeBytes,
                st \in {22, 97, 119}, md \in {Fast, Original(0)} :
                cpu = CmpCpu(<<op, m>>, v, st, md, (m :> m))
    /\ GhostInit

CmpTick ==
    /\ steps < MaxCmpSteps
    /\ ~halted
    /\ Return(tick(cpu), "tick", 0, InstrAt(cpu))

NextCmp == CmpTick

SpecCmp == InitCmp /\ [][NextCmp]_vars

----------------------------------------------------------------------------
(* C24 *)

\* the tick of prev compared register reg with its operand
Compared(op, reg) ==
    Operated(op) =>
        /\ last.st = "ok"
        /\ cpu.C = (prev[reg] >= M)
        /\ cpu.Z = (prev[reg] = M)
        /\ cpu.N = (Bit((prev[reg] - M + ByteMod) % ByteMod, 7) = 1)
        /\ cpu = [prev EXCEPT !.C = cpu.C, !.Z = cpu.Z, !.N = cpu.N,
                              !.PC = cpu.PC, !.mode = cpu.mode]

\* C24: for every register r in {A, X, Y} with value v and every operand m,
\* CMP/CPX/CPY leaves C = (v >= m), Z = (v = m), N = bit 7 of (v - m) mod 256,
\* and leaves the register, the other flags and memory unchanged.
C24_Compare ==
    /\ Compared("Cmp", "A")
    /\ Compared("Cpx", "X")
    /\ Compared("Cpy", "Y")

\* CPX of equal bytes from a state with C, Z clear and V, I set
C24_Witness ==
    /\ Operated("Cpx")
    /\ prev.X = 128 /\ M = 128
    /\ ~prev.C /\ ~prev.Z /\ prev.V /\ prev.I
    /\ cpu.C /\ cpu.Z /\ ~cpu.N /\ cpu.V /\ cpu.I
    /\ cpu.X = 128

----------------------------------------------------------------------------
(* C25 *)

\* the condition of each branch, as the claim lists it
Condition ==
    [Bcc |-> ~prev.C, Bcs |-> prev.C, Beq |-> prev.Z, Bne |-> ~prev.Z,
     Bmi |-> prev.N, Bpl |-> ~prev.N, Bvc |-> ~prev.V, Bvs |-> prev.V]

\* the tick of prev reached the arm of a branch whose operand is readable
BranchExecuted ==
    /\ last.call = "tick"
    /\ last.instr \in BranchOps
    /\ fetch_op(prev).st = "ok"
    /\ fetch(fetch_op(prev).cpu).st = "ok"

\* the tick took the branch: it moved PC off the address after the operand
\* (in Original mode it also spent the extra cycle), or it failed to compute
\* the target
Taken ==
    \/ /\ last.st = "ok"
       /\ cpu.PC # prev.PC + 2 \/ MemRead(prev.addr, prev.PC + 1) = 0
       /\ prev.mode.orig => cpu.mode.n = 2
    \/ last.st = "Other"

\* the tick did not take the branch: PC is the address after the operand
NotTaken ==
    /\ last.st = "ok"
    /\ cpu.PC = prev.PC + 2
    /\ prev.mode.orig => cpu.mode.n = 1

\* C25: each branch is taken exactly when its flag condition holds, whatever
\* the other flags are; a branch that is not taken leaves PC at the address
\* after its operand byte; no branch changes a register, a flag, SP or memory.
C25_BranchTaken ==
    BranchExecuted =>
        /\ IF Condition[last.instr] THEN Taken ELSE NotTaken
        /\ ~halted
        /\ cpu = [prev EXCEPT !.PC = cpu.PC, !.mode = cpu.mode]

\* BVS with V the only flag set is taken, five bytes forward
C25_Witness ==
    /\ BranchExecuted
    /\ last.instr = "Bvs"
    /\ status_get(prev) = V_FLAG
    /\ prev.mode.orig
    /\ cpu.PC = prev.PC + 2 + 5
    /\ cpu.mode.n = 2

----------------------------------------------------------------------------
(* bus.rs: Bus::connect and Snapshottable for Bus *)

\* Bus::connect: self.devices.push(..)
Bus_connect(b, d) == Append(b, d)

\* the largest `end` of the devices, Word::MIN without one
LargestEnd(b) ==
    IF b = <<>> THEN 0
    ELSE CHOOSE e \in {b[i].end : i \in 1..Len(b)} : \A i \in 1..Len(b) : b[i].end <= e

\* the last device, in the order of connect, whose route contains index
Overwriter(b, index) ==
    CHOOSE i \in {j \in 1..Len(b) : b[j].start <= index /\ index <= b[j].end} :
        \A j \in 1..Len(b) : (b[j].start <= index /\ index <= b[j].end) => j <= i

\* Snapshottable::snapshot for Bus: dump = vec![0; end], then for each device
\* in order and each i in start..=end, dump[i] = device[i]. dump[i] panics
\* for i >= end and device[i] for i past the Vec of the device.
Bus_snapshot(b) ==
    LET end == LargestEnd(b)
        covered == {a \in UNION {DOMAIN b[i].mem.data : i \in 1..Len(b)} :
                        \E i \in 1..Len(b) : b[i].start <= a /\ a <= b[i].end}
        f == [a \in covered |-> MemRead(b[Overwriter(b, a)].mem, a)]
    IN  IF \E i \in 1..Len(b) :
               /\ b[i].start <= b[i].end
               /\ b[i].end >= end \/ b[i].end >= b[i].mem.len
        THEN [st |-> "panic", val |-> 0]
        ELSE [st |-> "ok", val |-> Image(end, f)]

----------------------------------------------------------------------------
(* SpecRoutes: a Bus built by connect calls from Bus::default(), then      *)
(* asked, indexed and snapshotted.                                         *)

MaxRouteSteps == 4

\* three 64 KiB memories that differ at $0000, $4000 and $8000, and a
\* Memory::using of 256 bytes
RamMemory == Image(WordMod, (0 :> 7) @@ (WordOfFull(0, 64) :> 17) @@ (WordOfFull(0, 128) :> 27))
RomMemory == Image(WordMod, (0 :> 8) @@ (WordOfFull(0, 64) :> 18) @@ (WordOfFull(0, 128) :> 28))
IoMemory == Image(WordMod, (0 :> 9) @@ (WordOfFull(0, 64) :> 19) @@ (WordOfFull(0, 128) :> 29))

\* the routes a connect call registers: two halves, a window over both, the
\* usual single route, a short device routed above its length
Routes ==
    {Device(0, WordOfFull(255, 127), RamMemory),
     Device(WordOfFull(0, 128), WordMod - 1, RomMemory),
     Device(WordOfFull(0, 64), WordOfFull(255, 191), IoMemory),
     Device(0, WordMod - 1, DefaultMemory),
     Device(WordOfFull(0, 2), WordOfFull(255, 2), SmallMemory(256))}

RouteAddrs == {0, 255, WordOfFull(0, 2), WordOfFull(0, 64), WordOfFull(0, 128), WordMod - 1}

InitRoutes ==
    /\ overflow_checks = FALSE
    /\ cpu = MkCpu(0, SP_ADDR, 17, 34, 51, 0, Fast, <<>>)
    /\ GhostInit

\* bus.connect(name, start, end, device)
Connect(d) ==
    /\ ~halted
    /\ steps < MaxRouteSteps
    /\ Return(Ok([cpu EXCEPT !.addr = Bus_connect(cpu.addr, d)], d), "connect", 0, "none")

\* bus.inside_bounds(a)
InsideBounds(a) ==
    /\ ~halted
    /\ steps < MaxRouteSteps
    /\ Return(Ok(cpu, Bus_inside_bounds(cpu.addr, a)), "inside_bounds", a, "none")

\* bus[a]
BusIndex(a) ==
    /\ ~halted
    /\ steps < MaxRouteSteps
    /\ \E r \in {Bus_index(cpu.addr, a)} :
          Return(IF r.st = "ok" THEN Ok(cpu, r.val) ELSE Panic(cpu), "index", a, "none")

\* bus[a] = v
BusIndexMut(a, v) ==
    /\ ~halted
    /\ steps < MaxRouteSteps
    /\ \E r \in {Bus_index_mut(cpu.addr, a, v)} :
          Return(IF r.st = "ok" THEN Ok([cpu EXCEPT !.addr = r.val], v) ELSE Panic(cpu),
                 "index_mut", a, "none")

\* bus.snapshot()
BusSnapshot ==
    /\ ~halted
    /\ steps < MaxRouteSteps
    /\ \E r \in {Bus_snapshot(cpu.addr)} :
          Return(IF r.st = "ok" THEN Ok(cpu, r.val) ELSE Panic(cpu), "snapshot", 0, "none")

NextRoutes ==
    \/ \E d \in Routes : Connect(d)
    \/ \E a \in RouteAddrs : InsideBounds(a)
    \/ \E a \in RouteAddrs : BusIndex(a)
    \/ \E a \in RouteAddrs : BusIndexMut(a, 77)
    \/ BusSnapshot

SpecRoutes == InitRoutes /\ [][NextRoutes]_vars

----------------------------------------------------------------------------
(* C26 *)

\* route i of bus b contains address a
Contains(b, i, a) == b[i].start <= a /\ a <= b[i].end

\* C26: after any sequence of connect calls, Bus in_bounds(addr) is true if
\* and only if at least one registered route satisfies start <= addr <= end,
\* independently of how large the devices behind the routes are.
C26_InBounds ==
    last.call = "inside_bounds"
    => last.val = (\E i \in 1..Len(prev.addr) : Contains(prev.addr, i, last.arg))

----------------------------------------------------------------------------
(* C27 *)

\* route i is the earliest-registered route of b that contains a
Earliest(b, i, a) == Contains(b, i, a) /\ \A j \in 1..(i - 1) : ~Contains(b, j, a)

\* the device behind route i holds a cell for the absolute address a
Holds(b, i, a) == a < b[i].mem.len

\* C27: after any sequence of connect calls, a Bus read or write of addr is
\* served by the earliest-registered route whose [start, end] contains addr,
\* also when later routes overlap it; connecting a route never removes or
\* reorders earlier routes; a write of v to addr followed by a read of addr
\* returns v.
C27_FirstMatch ==
    /\ \A i \in 1..Len(prev.addr) :
          (last.call = "index" /\ Earliest(prev.addr, i, last.arg))
          => /\ cpu = prev
             /\ IF Holds(prev.addr, i, last.arg)
                THEN last.st = "ok" /\ last.val = MemRead(prev.addr[i].mem, last.arg)
                ELSE last.st = "panic"
    /\ \A i \in 1..Len(prev.addr) :
          (last.call = "index_mut" /\ Earliest(prev.addr, i, last.arg))
          => IF Holds(prev.addr, i, last.arg)
             THEN /\ last.st = "ok"
                  /\ cpu.addr = [prev.addr EXCEPT ![i].mem = MemWrite(@, last.arg, last.val)]
             ELSE last.st = "panic" /\ cpu = prev
    /\ last.call = "connect"
       => /\ Len(cpu.addr) = Len(prev.addr) + 1
          /\ SubSeq(cpu.addr, 1, Len(prev.addr)) = prev.addr
          /\ cpu.addr[Len(cpu.addr)] = last.val
    /\ (/\ last2.call = "index_mut" /\ last2.st = "ok"
        /\ last.call = "index" /\ last.arg = last2.arg)
       => last.st = "ok" /\ last.val = last2.val

\* two overlapping routes: $4000 was written through the earlier one (the
\* lower half), the later window over it keeps its own byte, and the read
\* returned the written byte
C27_Witness ==
    /\ last.call = "index" /\ last.arg = WordOfFull(0, 64)
    /\ last2.call = "index_mut" /\ last2.arg = last.arg
    /\ Len(cpu.addr) = 2
    /\ Contains(cpu.addr, 1, last.arg) /\ Contains(cpu.addr, 2, last.arg)
    /\ cpu.addr[1].start = 0
    /\ last.val = 77
    /\ MemRead(cpu.addr[2].mem, last.arg) = 19

----------------------------------------------------------------------------
(* C28 *)

\* snapshot() was called on a bus with at least one route
Snapshotted == last.call = "snapshot" /\ Len(prev.addr) > 0

\* C28: for a Bus with at least one route, snapshot() succeeds and returns an
\* image in which every address inside some route's inclusive range [start,
\* end], the largest end included, holds the serving device's byte and every
\* uncovered address holds 0; for the single route [0, $FFFF] the image has
\* 65,536 bytes.
C28_Snapshot ==
    Snapshotted =>
        /\ last.st = "ok"
        /\ ~halted
        /\ \A a \in RouteAddrs :
              /\ \A i \in 1..Len(prev.addr) :
                    Earliest(prev.addr, i, a)
                    => a < last.val.len /\ MemRead(last.val, a) = MemRead(prev.addr[i].mem, a)
              /\ (\A i \in 1..Len(prev.addr) : ~Contains(prev.addr, i, a))
                 => MemRead(last.val, a) = 0
        /\ prev.addr = <<Device(0, WordMod - 1, DefaultMemory)>> => last.val.len = WordMod

----------------------------------------------------------------------------
(* oscillator.rs. Time is counted in units of the clock; an attached       *)
(* Box<dyn Tickable> is a device that counts its ticks and returns an      *)
(* error on the ticks listed in `fails`.                                   *)

Tickable(name, fails) == [name |-> name, ticks |-> 0, fails |-> fails]

\* device.tick()
Tickable_tick(d) ==
    [dev |-> [d EXCEPT !.ticks = @ + 1],
     st |-> IF d.ticks + 1 \in d.fails THEN "Other" ELSE "ok"]

\* Oscillator::new(delta): last_pass = Instant::now()
Oscillator_new(delta, now) == [last_pass |-> now, delta |-> delta, devices |-> <<>>]

\* Oscillator::connect: self.devices.push((name, device))
Oscillator_connect(o, d) == [o EXCEPT !.devices = Append(@, d)]

\* mutant of TickDevices: a failing device does not end the pass
RECURSIVE TickDevices_continue(_, _)
TickDevices_continue(devs, i) ==
    IF i > Len(devs) THEN [devices |-> devs, st |-> "ok", name |-> "", ticked |-> <<>>]
    ELSE LET r == Tickable_tick(devs[i])
             rest == TickDevices_continue([devs EXCEPT ![i] = r.dev], i + 1)
         IN  IF r.st # "ok"
             THEN [rest EXCEPT !.st = "Other", !.name = devs[i].name,
                               !.ticked = <<devs[i].name>> \o @]
             ELSE [rest EXCEPT !.ticked = <<devs[i].name>> \o @]

\* the loop of tick over self.devices from the i-th on: each device is
\* ticked, `?` returns at the first error with the name of its device;
\* `ticked` lists the devices ticked, in the order of the calls
RECURSIVE TickDevices(_, _)
TickDevices(devs, i) ==
    IF i > Len(devs) THEN [devices |-> devs, st |-> "ok", name |-> "", ticked |-> <<>>]
    ELSE LET r == Tickable_tick(devs[i])
             d1 == [devs EXCEPT ![i] = r.dev]
         IN  IF r.st # "ok"
             THEN [devices |-> d1, st |-> "Other", name |-> devs[i].name,
                   ticked |-> <<devs[i].name>>]
             ELSE [TickDevices(d1, i + 1) EXCEPT !.ticked = <<devs[i].name>> \o @]

\* mutant of Oscillator_tick: a pass also when the elapsed time equals delta
Oscillator_tick_not_strict(o, now) ==
    IF now - o.last_pass >= o.delta
    THEN LET r == TickDevices(o.devices, 1)
         IN  [osc |-> [o EXCEPT !.devices = r.devices,
                                !.last_pass = IF r.st = "ok" THEN now ELSE @],
              st |-> r.st, name |-> r.name, ticked |-> r.ticked]
    ELSE [osc |-> o, st |-> "ok", name |-> "", ticked |-> <<>>]

\* mutant of Oscillator_tick: a halted pass also moves last_pass
Oscillator_tick_stamps_halted(o, now) ==
    IF now - o.last_pass > o.delta
    THEN LET r == TickDevices(o.devices, 1)
         IN  [osc |-> [o EXCEPT !.devices = r.devices, !.last_pass = now],
              st |-> r.st, name |-> r.name, ticked |-> r.ticked]
    ELSE [osc |-> o, st |-> "ok", name |-> "", ticked |-> <<>>]

\* Tickable::tick for Oscillator, `now` the reading of Instant::now()
Oscillator_tick(o, now) ==
    IF now - o.last_pass > o.delta
    THEN LET r == TickDevices(o.devices, 1)
         IN  [osc |-> [o EXCEPT !.devices = r.devices,
                                !.last_pass = IF r.st = "ok" THEN now ELSE @],
              st |-> r.st, name |-> r.name, ticked |-> r.ticked]
    ELSE [osc |-> o, st |-> "ok", name |-> "", ticked |-> <<>>]

----------------------------------------------------------------------------
(* SpecOsc: an Oscillator with up to three devices, ticked at clock        *)
(* readings that never decrease.                                           *)

MaxOscSteps == 3

\* the lists of devices attached by connect, in registration order
Attached ==
    {<<>>,
     <<Tickable("cpu", {})>>,
     <<Tickable("cpu", {}), Tickable("via", {}), Tickable("acia", {})>>,
     <<Tickable("cpu", {}), Tickable("via", {1}), Tickable("acia", {})>>,
     <<Tickable("cpu", {}), Tickable("via", {}), Tickable("acia", {2})>>,
     <<Tickable("cpu", {1}), Tickable("via", {1}), Tickable("acia", {})>>}

RECURSIVE ConnectAll(_, _)
ConnectAll(o, devs) ==
    IF devs = <<>> THEN o ELSE ConnectAll(Oscillator_connect(o, Head(devs)), Tail(devs))

\* intervals: from_hertz above 1 GHz gives 0; 2 units otherwise
Deltas == {0, 2}

\* how far the clock has moved between two readings
Advances == {0, 1, 2, 3, 7}

InitOsc ==
    /\ overflow_checks = FALSE
    /\ cpu = MkCpu(0, SP_ADDR, 0, 0, 0, 0, Fast, Image(WordMod, NoData))
    /\ clock = 0
    /\ \E delta \in Deltas, devs \in Attached :
          osc = ConnectAll(Oscillator_new(delta, clock), devs)
    /\ halted = FALSE
    /\ last = [call |-> "none", arg |-> 0, instr |-> "none", st |-> "ok", val |-> 0]
    /\ prev = osc
    /\ last2 = last
    /\ prev2 = osc
    /\ frames = <<>>
    /\ ret = NoFrame
    /\ cyc = NoCycles
    /\ loop = NoLoop
    /\ twin = NoTwin
    /\ steps = 0

\* oscillator.tick() when the clock reads clock + adv
OscTick(adv) ==
    /\ steps < MaxOscSteps
    /\ clock' = clock + adv
    /\ \E r \in {Oscillator_tick(osc, clock + adv)} :
          /\ osc' = r.osc
          /\ last' = [call |-> "osc_tick", arg |-> clock + adv, instr |-> "none",
                      st |-> r.st, val |-> [name |-> r.name, ticked |-> r.ticked]]
    /\ prev' = osc
    /\ last2' = last
    /\ prev2' = prev
    /\ steps' = steps + 1
    /\ UNCHANGED <<cpu, overflow_checks, halted, frames, ret, cyc, loop, twin>>

NextOsc == \E adv \in Advances : OscTick(adv)

SpecOsc == InitOsc /\ [][NextOsc]_vars

----------------------------------------------------------------------------
(* C29 *)

\* oscillator.tick() was called on prev
OscTicked == last.call = "osc_tick"

\* the time elapsed since the last pass exceeded the interval
Due == last.arg - prev.last_pass > prev.delta

\* the names of the devices in registration order
Names(o) == [i \in 1..Len(o.devices) |-> o.devices[i].name]

\* the ticks each device of osc has received since prev
TicksSince == [i \in 1..Len(osc.devices) |-> osc.devices[i].ticks - prev.devices[i].ticks]

\* C29 as stated: if now - last_pass is strictly greater than the interval,
\* every attached tickable is ticked exactly once, in registration order, and
\* last_pass becomes now; otherwise no tickable is ticked and last_pass is
\* unchanged. One tick never runs more than one pass.
C29_PassAlways ==
    OscTicked =>
        /\ Names(osc) = Names(prev)
        /\ IF Due
           THEN /\ \A i \in 1..Len(osc.devices) : TicksSince[i] = 1
                /\ last.val.ticked = Names(prev)
                /\ osc.last_pass = last.arg
           ELSE osc = prev /\ last.val.ticked = <<>>

\* C29: as stated when no tickable returns an error; when the k-th returns
\* an error the pass ends with it and last_pass is unchanged. In every case
\* no tickable is ticked more than once, however long the elapsed time.
C29_Pass ==
    OscTicked =>
        /\ Names(osc) = Names(prev)
        /\ \A i \in 1..Len(osc.devices) : TicksSince[i] \in {0, 1}
        /\ IF Due
           THEN IF last.st = "ok"
                THEN /\ \A i \in 1..Len(osc.devices) : TicksSince[i] = 1
                     /\ last.val.ticked = Names(prev)
                     /\ osc.last_pass = last.arg
                ELSE /\ last.val.ticked = SubSeq(Names(prev), 1, Len(last.val.ticked))
                     /\ \A i \in 1..Len(osc.devices) :
                           TicksSince[i] = (IF i <= Len(last.val.ticked) THEN 1 ELSE 0)
                     /\ osc.last_pass = prev.last_pass
           ELSE osc = prev /\ last.val.ticked = <<>> /\ last.st = "ok"

\* seven units after the last pass with an interval of two: one pass over
\* the three devices, each ticked once; the tick before it came exactly at
\* the interval and ticked nothing
C29_Witness ==
    /\ OscTicked /\ Due
    /\ prev.delta = 2
    /\ last.arg - prev.last_pass >= 7
    /\ last.val.ticked = <<"cpu", "via", "acia">>
    /\ \A i \in 1..3 : TicksSince[i] = 1
    /\ osc.last_pass = last.arg
    /\ last2.call = "osc_tick" /\ last2.val.ticked = <<>>

----------------------------------------------------------------------------
(* C30 *)

\* in the pass made by the last tick the k-th device was the first to
\* return an error
FirstError(k) ==
    /\ OscTicked /\ Due
    /\ k \in 1..Len(prev.devices)
    /\ prev.devices[k].ticks + 1 \in prev.devices[k].fails
    /\ \A i \in 1..(k - 1) : prev.devices[i].ticks + 1 \notin prev.devices[i].fails

\* C30: if during a pass the k-th attached tickable returns an error, the
\* Oscillator tick returns an error that carries that tickable's name, and
\* the tickables registered after it are not ticked in that pass.
C30_ChildError ==
    \A k \in 1..Len(prev.devices) :
        FirstError(k) =>
            /\ last.st # "ok"
            /\ last.val.name = prev.devices[k].name
            /\ \A i \in (k + 1)..Len(osc.devices) : TicksSince[i] = 0
            /\ \A i \in 1..k : TicksSince[i] = 1

\* the second of three devices failed: the error names "via", "acia" was not
\* ticked
C30_Witness ==
    /\ FirstError(2)
    /\ Len(prev.devices) = 3
    /\ last.st = "Other"
    /\ last.val.name = "via"
    /\ last.val.ticked = <<"cpu", "via">>
    /\ TicksSince = <<1, 1, 0>>

----------------------------------------------------------------------------
(* SpecIndex: one tick of an indexed load or store, for index bytes spread *)
(* over the whole range, or of an indirect jump, in a memory where a cell  *)
(* of an even page holds its low byte and a cell of an odd page the        *)
(* complement of its low byte.                                             *)

MaxIndexSteps == 1

LDA_ZPX == 181
LDY_ZPX == 180
LDX_ZPY == 182
STA_ZPX == 149
LDA_ABSX == 189
LDA_ABSY == 185
LDX_ABSY == 190
LDY_ABSX == 188
STA_ABSX == 157
JMP_IND == 108

\* operand bytes of the indexed instructions: every 51st byte and the edges
IndexOperands == {m \in Bytes : m % 51 = 0} \cup EdgeBytes

\* pages $00, $01, $12, $13 and $FF of the memory
PageCells(page) == [a \in {page * ByteMod + lo : lo \in Bytes} |->
                        IF page % 2 = 0 THEN a % ByteMod ELSE 255 - (a % ByteMod)]

IndexData == PageCells(0) @@ PageCells(1) @@ PageCells(18) @@ PageCells(19) @@ PageCells(255)

\* a Cpu at $0200 with index registers x and y, about to execute code
IndexCpu(code, x, y) ==
    MkCpu(512, SP_ADDR, 170, x, y, 0, Fast, Image(WordMod, Place(512, code) @@ IndexData))

InitIndex ==
    /\ \/ /\ overflow_checks = FALSE
          /\ \E op \in {LDA_ZPX, LDY_ZPX, STA_ZPX}, d \in IndexOperands, i \in OperandBytes :
                cpu = IndexCpu(<<op, d>>, i, (i + 1) % ByteMod)
       \/ /\ overflow_checks = FALSE
          /\ \E d \in IndexOperands, i \in OperandBytes :
                cpu = IndexCpu(<<LDX_ZPY, d>>, (i + 1) % ByteMod, i)
       \/ /\ overflow_checks = TRUE
          /\ \E op \in {LDA_ABSX, LDY_ABSX, STA_ABSX}, d \in IndexOperands, i \in OperandBytes :
                cpu = IndexCpu(<<op, d, 18>>, i, (i + 1) % ByteMod)
       \/ /\ overflow_checks = TRUE
          /\ \E op \in {LDA_ABSY, LDX_ABSY}, d \in IndexOperands, i \in OperandBytes :
                cpu = IndexCpu(<<op, d, 18>>, (i + 1) % ByteMod, i)
       \/ /\ overflow_checks \in BOOLEAN
          /\ \E op \in {LDA_ABSX, STA_ABSX}, d \in EdgeBytes, i \in EdgeBytes :
                cpu = IndexCpu(<<op, d, 255>>, i, (i + 1) % ByteMod)
       \/ /\ overflow_checks \in BOOLEAN
          /\ \E lo \in OperandBytes, hi \in {0, 18, 255} :
                cpu = IndexCpu(<<JMP_IND, lo, hi>>, 0, 0)
    /\ GhostInit

IndexTick ==
    /\ steps < MaxIndexSteps
    /\ ~halted
    /\ Return(tick(cpu), "tick", 0, InstrAt(cpu))

NextIndex == IndexTick

SpecIndex == InitIndex /\ [][NextIndex]_vars

----------------------------------------------------------------------------
(* C31 *)

\* the opcode and the operand bytes of the instruction of prev
OpcodeByte == MemRead(prev.addr, prev.PC)
OperandLow == MemRead(prev.addr, prev.PC + 1)
OperandHigh == MemRead(prev.addr, prev.PC + 2)

\* the tick of prev loaded register reg from cell a
LoadedFrom(reg, a) == last.st = "ok" /\ cpu[reg] = MemRead(prev.addr, a)

\* the tick of prev stored register reg to cell a and to no other cell
StoredTo(reg, a) ==
    /\ last.st = "ok"
    /\ MemRead(cpu.addr, a) = prev[reg]
    /\ \A b \in (DOMAIN prev.addr.data \cup DOMAIN cpu.addr.data) \ {a} :
            MemRead(cpu.addr, b) = MemRead(prev.addr, b)

\* the effective address of a zero-page indexed and of an absolute indexed
\* operand of prev
ZeroPageIndexed(reg) == (OperandLow + prev[reg]) % ByteMod
AbsoluteIndexed(reg) == OperandHigh * ByteMod + OperandLow + prev[reg]

\* C31: a tick that executes a ZeroPage,X or ZeroPage,Y instruction with
\* operand byte d accesses the cell (d + index) mod 256 of page zero; a tick
\* that executes an Absolute,X or Absolute,Y instruction whose base + index
\* is an address accesses the cell base + index, the carry of the low byte
\* going into the high byte.
C31_Indexed ==
    last.call = "tick" =>
        /\ OpcodeByte = LDA_ZPX => LoadedFrom("A", ZeroPageIndexed("X"))
        /\ OpcodeByte = LDY_ZPX => LoadedFrom("Y", ZeroPageIndexed("X"))
        /\ OpcodeByte = LDX_ZPY => LoadedFrom("X", ZeroPageIndexed("Y"))
        /\ OpcodeByte = STA_ZPX => StoredTo("A", ZeroPageIndexed("X"))
        /\ OpcodeByte \in {LDA_ZPX, LDY_ZPX, LDX_ZPY, STA_ZPX} =>
                ZeroPageIndexed("X") \in 0..255 /\ ZeroPageIndexed("Y") \in 0..255
        /\ OpcodeByte = LDA_ABSX /\ AbsoluteIndexed("X") < WordMod =>
                LoadedFrom("A", AbsoluteIndexed("X"))
        /\ OpcodeByte = LDY_ABSX /\ AbsoluteIndexed("X") < WordMod =>
                LoadedFrom("Y", AbsoluteIndexed("X"))
        /\ OpcodeByte = LDA_ABSY /\ AbsoluteIndexed("Y") < WordMod =>
                LoadedFrom("A", AbsoluteIndexed("Y"))
        /\ OpcodeByte = LDX_ABSY /\ AbsoluteIndexed("Y") < WordMod =>
                LoadedFrom("X", AbsoluteIndexed("Y"))
        /\ OpcodeByte = STA_ABSX /\ AbsoluteIndexed("X") < WordMod =>
                StoredTo("A", AbsoluteIndexed("X"))

\* LDA $FF,X with X = 5 loaded the byte of cell $0004, not of cell $0104
C31_Witness ==
    /\ last.call = "tick"
    /\ OpcodeByte = LDA_ZPX
    /\ OperandLow = 255
    /\ prev.X = 5
    /\ cpu.A = 4
    /\ MemRead(prev.addr, 260) = 251

----------------------------------------------------------------------------
(* C32 *)

\* the pointer operand of the instruction of prev
Pointer == OperandHigh * ByteMod + OperandLow

\* C32: a tick that executes JMP (p), p + 1 an address, leaves
\* PC = mem[p] | (mem[p + 1] << 8) and nothing else changed; for a pointer at
\* the end of a page the high byte is the first cell of the next page.
C32_JmpIndirect ==
    last.call = "tick" /\ OpcodeByte = JMP_IND /\ Pointer + 1 < WordMod =>
        /\ last.st = "ok"
        /\ cpu = [prev EXCEPT !.PC = MemRead(prev.addr, Pointer)
                                     + ByteMod * MemRead(prev.addr, Pointer + 1)]

\* JMP ($12FF) read the high byte $FF of cell $1300, not the $00 of cell $1200
C32_Witness ==
    /\ last.call = "tick"
    /\ OpcodeByte = JMP_IND
    /\ Pointer = 4863
    /\ MemRead(prev.addr, 4608) = 0
    /\ MemRead(prev.addr, 4864) = 255
    /\ cpu.PC = 65535

----------------------------------------------------------------------------
(* SpecFlags: one tick of an instruction that derives flags from its       *)
(* result (loads, transfers, PLA, logical operations, increments,          *)
(* decrements, shifts and rotates) or that moves a byte without touching   *)
(* the flags (stores, TXS), from several settings of the seven flags.      *)

MaxFlagSteps == 1

TAX == 170
TAY == 168
TXA == 138
TYA == 152
TSX == 186
TXS == 154
AND_IMM == 41
EOR_IMM == 73
ORA_IMM == 9
INC_ZP == 230
DEC_ZP == 198
INY == 200
DEX == 202
DEY == 136
STA_ZP == 133
STX_ZP == 134
STY_ZP == 132
ASL_A == 10
ASL_ZP == 6
LSR_A == 74
LSR_ZP == 70
ROL_A == 42
ROL_ZP == 38
ROR_A == 106
ROR_ZP == 102

\* status bytes: no flag, each flag alone, and mixtures
FlagStatuses == {0, 1, 2, 4, 8, 16, 32, 64, 33, 94, 95, 126, 127}

\* register and operand bytes whose successors, predecessors and
\* complements cover 0, bit 7 set and bit 7 clear
FlagBytes == EdgeBytes \cup {2, 254}

\* a Cpu at $0200 with the given registers and flags, about to execute code
FlagCpu(code, a, x, y, sp, st, data) ==
    MkCpu(512, sp, a, x, y, st, Fast, Image(WordMod, Place(512, code) @@ data))

InitFlags ==
    /\ overflow_checks \in BOOLEAN
    /\ \/ \E op \in {LDA_IMM, LDX_IMM, LDY_IMM, AND_IMM, EOR_IMM, ORA_IMM},
             m \in FlagBytes, a \in EdgeBytes, st \in FlagStatuses :
                cpu = FlagCpu(<<op, m>>, a, 255 - a, BitXor(a, 128), SP_ADDR, st, NoData)
       \/ \E op \in {TAX, TAY, TXA, TYA, INX, INY, DEX, DEY, TXS},
             v \in FlagBytes, st \in FlagStatuses :
                cpu = FlagCpu(<<op>>, v, 255 - v, BitXor(v, 128), SP_ADDR, st, NoData)
       \/ \E sp \in FlagBytes, st \in FlagStatuses :
                cpu = FlagCpu(<<TSX>>, 17, 34, 51, sp, st, NoData)
       \/ \E m \in FlagBytes, st \in FlagStatuses :
                cpu = FlagCpu(<<PLA>>, 17, 34, 51, 253, st, (510 :> m))
       \/ \E op \in {INC_ZP, DEC_ZP, STA_ZP, STX_ZP, STY_ZP},
             m \in FlagBytes, st \in FlagStatuses :
                cpu = FlagCpu(<<op, 68>>, 255 - m, BitXor(m, 128), (m + 1) % ByteMod,
                              SP_ADDR, st, (68 :> m))
       \/ \E op \in {ASL_A, LSR_A, ROL_A, ROR_A}, v \in Bytes, st \in {0, C_FLAG, 35, 35 + C_FLAG} :
                cpu = FlagCpu(<<op>>, v, 34, 51, SP_ADDR, st, (68 :> 255 - v))
       \/ \E op \in {ASL_ZP, LSR_ZP, ROL_ZP, ROR_ZP}, v \in Bytes, st \in {0, C_FLAG, 35, 35 + C_FLAG} :
                cpu = FlagCpu(<<op, 68>>, 255 - v, 34, 51, SP_ADDR, st, (68 :> v))
    /\ GhostInit

FlagTick ==
    /\ steps < MaxFlagSteps
    /\ ~halted
    /\ Return(tick(cpu), "tick", 0, InstrAt(cpu))

NextFlags == FlagTick

SpecFlags == InitFlags /\ [][NextFlags]_vars

----------------------------------------------------------------------------
(* C33 *)

\* the byte that the instruction of prev produced: the register it assigned
\* or, for INC and DEC, the zero-page cell it wrote
ResultOf ==
    CASE last.instr \in {"Lda", "Txa", "Tya", "Pla", "And", "Eor", "Ora"} -> cpu.A
      [] last.instr \in {"Ldx", "Tax", "Tsx", "Inx", "Dex"} -> cpu.X
      [] last.instr \in {"Ldy", "Tay", "Iny", "Dey"} -> cpu.Y
      [] last.instr \in {"Inc", "Dec"} -> MemRead(cpu.addr, OperandLow)

\* the flags of the set are as they were in prev
SameFlags(flags) == \A f \in flags : cpu[f] = prev[f]

\* C33: after a tick that executes a load, a transfer other than TXS, PLA,
\* AND, EOR, ORA, INC, DEC, INX, INY, DEX or DEY, Z is set iff the result is
\* 0, N iff bit 7 of the result is set, and C, I, D, B, V are as before;
\* after STA, STX, STY or TXS all seven flags are as before.
C33_Flags ==
    last.call = "tick" =>
        /\ last.instr \in {"Lda", "Ldx", "Ldy", "Tax", "Tay", "Txa", "Tya", "Tsx", "Pla",
                           "And", "Eor", "Ora", "Inc", "Dec", "Inx", "Iny", "Dex", "Dey"} =>
                /\ last.st = "ok"
                /\ cpu.Z = (ResultOf = 0)
                /\ cpu.N = (ResultOf >= 128)
                /\ SameFlags({"C", "I", "D", "B", "V"})
        /\ last.instr \in {"Sta", "Stx", "Sty", "Txs"} =>
                /\ last.st = "ok"
                /\ SameFlags({"C", "Z", "I", "D", "B", "V", "N"})

\* LDA #$80 with Z, C, I, D, B, V set and N clear: N becomes set, Z clear
C33_Witness ==
    /\ Executed("Lda")
    /\ prev.Z /\ ~prev.N /\ prev.C /\ prev.I /\ prev.D /\ prev.B /\ prev.V
    /\ cpu.A = 128
    /\ cpu.N /\ ~cpu.Z /\ cpu.C /\ cpu.I /\ cpu.D /\ cpu.B /\ cpu.V

----------------------------------------------------------------------------
(* C34 *)

\* the shift or rotate of prev works on the accumulator / on cell OperandLow
OnAccumulator == OpcodeByte \in {ASL_A, LSR_A, ROL_A, ROR_A}
OnMemory == OpcodeByte \in {ASL_ZP, LSR_ZP, ROL_ZP, ROR_ZP}

\* the operand before and after the instruction of prev
ShiftIn == IF OnAccumulator THEN prev.A ELSE MemRead(prev.addr, OperandLow)
ShiftOut == IF OnAccumulator THEN cpu.A ELSE MemRead(cpu.addr, OperandLow)

\* the result and the carry that the 6502 defines for the operation
ShiftResult ==
    CASE last.instr = "Asl" -> (ShiftIn * 2) % ByteMod
      [] last.instr = "Lsr" -> ShiftIn \div 2
      [] last.instr = "Rol" -> (ShiftIn * 2 + CarryIn) % ByteMod
      [] last.instr = "Ror" -> (ShiftIn \div 2) + CarryIn * 128

ShiftCarry ==
    IF last.instr \in {"Asl", "Rol"} THEN ShiftIn >= 128 ELSE ShiftIn % 2 = 1

\* C34: a tick that executes ASL, LSR, ROL or ROR on value v with carry c
\* leaves (v << 1) mod 256, v >> 1, ((v << 1) | c) mod 256 or
\* (v >> 1) | (c << 7) in the operand it read (the accumulator, or the cell
\* and not the accumulator), C = bit 7 of v for ASL and ROL and bit 0 of v
\* for LSR and ROR, and Z and N set from the result.
C34_Shift ==
    last.call = "tick" /\ last.instr \in {"Asl", "Lsr", "Rol", "Ror"} =>
        /\ last.st = "ok"
        /\ ShiftOut = ShiftResult
        /\ cpu.C = ShiftCarry
        /\ cpu.Z = (ShiftResult = 0)
        /\ cpu.N = (ShiftResult >= 128)
        /\ OnAccumulator => cpu.addr = prev.addr
        /\ OnMemory => cpu.A = prev.A

\* ROR of cell $44 holding $01 with the carry set leaves $80 in the cell,
\* C and N set, Z clear
C34_Witness ==
    /\ Executed("Ror")
    /\ OnMemory
    /\ ShiftIn = 1
    /\ prev.C
    /\ ShiftOut = 128
    /\ cpu.C /\ cpu.N /\ ~cpu.Z
    /\ cpu.A = 254

----------------------------------------------------------------------------
(* C35 *)

\* the tick of prev executed the RTI of a handler entered by interrupt(),
\* with D clear at the delivery, the three frame cells as interrupt() wrote
\* them and SP just below the frame (the handler left the stack balanced)
HandlerReturned ==
    /\ Executed("Rti")
    /\ ret.kind = "int"
    /\ ret.clean
    /\ BitAnd(ret.st, D_FLAG) = 0
    /\ prev.SP = wrapping_sub(ret.sp, 3)

\* C35: when an interrupt was delivered at PC = p with D clear and its
\* handler, having left the stack balanced, executes RTI, then PC = p and SP
\* and the seven flags (I included) are as they were at the delivery; the
\* frame returned through is always the most recent one still open, so
\* nested handlers unwind in last-in-first-out order.
C35_RtiResumes ==
    HandlerReturned =>
        /\ last.st = "ok"
        /\ cpu.PC = ret.site
        /\ cpu.SP = ret.sp
        /\ status_get(cpu) = ret.st
        /\ \A r \in {"A", "X", "Y"} : cpu[r] = prev[r]

\* an IRQ at $12FD with C, Z, B, V, N set, an NMI inside its handler, and the
\* two RTIs: first back into the IRQ handler with I set, then back to $12FD
\* with I clear and the flags of the start
C35_Witness ==
    /\ HandlerReturned
    /\ last2.call = "tick"
    /\ last2.instr = "Rti"
    /\ prev2.PC = NmiHandler
    /\ prev.PC = IrqHandler
    /\ prev.I
    /\ cpu.PC = 4861
    /\ status_get(cpu) = 103
    /\ frames = <<>>

----------------------------------------------------------------------------
(* SpecModes: a Cpu in Mode::Original and a Cpu in Mode::Fast started from *)
(* the same registers, flags and memory. Every tick goes to the Original   *)
(* Cpu; the Fast Cpu is ticked when that tick fetches an instruction, and  *)
(* not when it burns a cycle. No interrupt and no reset is delivered.      *)

MaxModeSteps == 8

InitModes ==
    /\ overflow_checks \in BOOLEAN
    /\ \/ \E i \in InstrCases, n \in {0, 2} :
             cpu = MkCpu(i.pc, i.sp, 17, 34, 51, i.status, Original(n),
                         Image(WordMod, Place(i.pc, i.code) @@ i.data))
       \/ \E p \in Programs, s \in Settings :
             cpu = MkCpu(p.start, s.sp, 17, 34, 51, s.status, Original(0), Image(s.len, p.f))
    /\ twin = [cpu |-> [cpu EXCEPT !.mode = Fast], st |-> "ok"]
    /\ halted = FALSE
    /\ last = [call |-> "none", arg |-> 0, instr |-> "none", st |-> "ok", val |-> 0]
    /\ prev = cpu
    /\ last2 = last
    /\ prev2 = cpu
    /\ frames = <<>>
    /\ ret = NoFrame
    /\ cyc = NoCycles
    /\ loop = NoLoop
    /\ osc = NoOscillator
    /\ clock = 0
    /\ steps = 0

ModeTick ==
    /\ steps < MaxModeSteps
    /\ ~halted
    /\ Returned(tick(cpu), "tick", 0, InstrAt(cpu))
    /\ \E t \in {tick(twin.cpu)} :
          twin' = IF InstrAt(cpu) = "burn" THEN twin ELSE [cpu |-> t.cpu, st |-> t.st]
    /\ UNCHANGED loop

NextModes == ModeTick

SpecModes == InitModes /\ [][NextModes]_vars

----------------------------------------------------------------------------
(* C36 *)

\* the architectural state of c: PC, SP, A, X, Y, the flags and the memory
Arch(c) == [c EXCEPT !.mode = Fast]

\* the last tick burnt a cycle of the instruction before it
Burnt == last.call = "tick" /\ last.instr = "burn"

\* C36: with no interrupt, after each tick of the Original Cpu that
\* executes an instruction its architectural state, and what the tick
\* returned, are those of the Fast Cpu after as many ticks as instructions
\* were executed; the other ticks of the Original Cpu succeed and change
\* nothing but the count of cycles left, which they lower by one.
C36_Modes ==
    /\ Arch(cpu) = Arch(twin.cpu)
    /\ last.call = "tick" /\ ~Burnt => last.st = twin.st
    /\ Burnt => /\ last.st = "ok"
                /\ cpu = [prev EXCEPT !.mode.n = @ - 1]
                /\ prev.mode.n > 0

\* after burnt cycles the Original Cpu executed an instruction that wrote
\* memory, has cycles of it left to burn, and agrees with the Fast Cpu
C36_Witness ==
    /\ last.call = "tick"
    /\ ~Burnt
    /\ last2.instr = "burn"
    /\ cpu.addr # prev.addr
    /\ cpu.mode.n > 0
    /\ Arch(cpu) = Arch(twin.cpu)
    /\ twin.cpu.mode = Fast

----------------------------------------------------------------------------
(* C37 *)

\* C37: address arithmetic is done modulo 65,536: an interrupt delivered
\* while PC = $0000 (stack cells and vector backed) succeeds and pushes the
\* bytes $FF, $FF of $0000 - 1 = $FFFF.
C37_Modulo ==
    /\ last.call = "interrupt"
    /\ prev.PC = 0
    /\ ~(prev.I /\ last.arg = 0)
    /\ Backed(prev, FrameCells(prev.SP, 3) \cup {NMIB, NMIB + 1, IRQB, IRQB + 1})
    => /\ last.st = "ok"
       /\ MemRead(cpu.addr, WordOfFull(prev.SP, SP_PAGE)) = 255
       /\ MemRead(cpu.addr, WordOfFull(wrapping_sub(prev.SP, 1), SP_PAGE)) = 255

----------------------------------------------------------------------------
(* C38 *)

\* the call returned an error to its caller
Failed(call) == last.call = call /\ last.st \notin {"ok", "panic"}

\* the stack cell that the i-th push of a call on prev writes
PushCell(i) == WordOfFull(wrapping_sub(prev.SP, i - 1), SP_PAGE)

\* the return address that interrupt() pushes for prev
PushedWord == (prev.PC + WordMod - 1) % WordMod

\* the memory of prev after the first k pushes of interrupt()
PushedMemory(k) ==
    CASE k = 0 -> prev.addr
      [] k = 1 -> MemWrite(prev.addr, PushCell(1), PageOf(PushedWord))
      [] k = 2 -> MemWrite(MemWrite(prev.addr, PushCell(1), PageOf(PushedWord)),
                           PushCell(2), AddrOf(PushedWord))

\* all that the call changed are its first k pushes
KeptPushes(k) ==
    cpu = [prev EXCEPT !.SP = wrapping_sub(prev.SP, k), !.addr = PushedMemory(k)]

\* C38 as stated: a reset() or interrupt() that returns an error leaves the
\* whole Cpu, memory included, as it was before the call.
C38_Atomic == Failed("reset") \/ Failed("interrupt") => cpu = prev

\* C38, amended: reset() fails iff $FFFC or $FFFD is unreadable, and a
\* failed reset() has set SP to $FF and changed nothing else; a failed
\* interrupt() keeps the pushes it made before the access that failed: none
\* when the first stack cell is unwritable, the high byte of PC - 1 and SP - 1
\* when the second is, both bytes of PC - 1 and SP - 2 when the vector is
\* unreadable; PC, A, X, Y and the flags are as before.
C38_Partial ==
    /\ last.call = "reset" /\ last.st # "panic" =>
            (last.st # "ok" <=> ~Backed(prev, {RESB, RESB + 1}))
    /\ Failed("reset") => cpu = [prev EXCEPT !.SP = SP_ADDR]
    /\ Failed("interrupt") =>
            IF ~Backed(prev, {PushCell(1)}) THEN KeptPushes(0)
            ELSE IF ~Backed(prev, {PushCell(2)}) THEN KeptPushes(1)
            ELSE /\ KeptPushes(2)
                 /\ ~Backed(prev, IF last.arg = 0 THEN {IRQB, IRQB + 1} ELSE {NMIB, NMIB + 1})

\* an interrupt() that failed on its vector after it had pushed PC - 1
C38_Witness ==
    /\ Failed("interrupt")
    /\ KeptPushes(2)
    /\ cpu.SP = wrapping_sub(prev.SP, 2)
    /\ MemRead(cpu.addr, PushCell(2)) = AddrOf(PushedWord)
    /\ cpu.addr # prev.addr

----------------------------------------------------------------------------
(* SpecDecimal: a Cpu on which reset() has just succeeded, followed by     *)
(* ticks, interrupts and further resets in any order. The programs execute *)
(* SED, CLD, and PLP and RTI on status bytes with and without the D bit.   *)

CLD == 216

\* where reset() starts the programs: $0200
DecimalStart == WordOfFull(0, 2)

\* the code at $0200; the IRQ handler is SED; RTI and the NMI handler RTI
DecimalCodes ==
    {<<SED, CLD, NOP>>, <<SED, SED, PLP>>, <<PLP, CLD, SED>>, <<RTI>>,
     <<LDA_IMM, D_FLAG, PHA, PLP>>, <<NOP, SED, NOP>>}

\* memory: vectors, code, handlers, and byte s in the stack cells $0100 and $0101
DecimalImage(code, s) ==
    PlaceWord(RESB, DecimalStart) @@ PlaceWord(IRQB, IrqHandler) @@ PlaceWord(NMIB, NmiHandler)
    @@ Place(DecimalStart, code)
    @@ Place(IrqHandler, <<SED, RTI>>)
    @@ Place(NmiHandler, <<RTI>>)
    @@ Place(WordOfFull(0, SP_PAGE), <<s, s>>)

InitDecimal ==
    /\ overflow_checks \in BOOLEAN
    /\ \E code \in DecimalCodes, s \in {0, D_FLAG, 127, 119},
          st \in {0, D_FLAG, 127}, md \in {Fast, Original(3)} :
          \E r \in {reset(MkCpu(0, 3, 17, 34, 51, st, md,
                                Image(WordMod, DecimalImage(code, s))))} :
             r.st = "ok" /\ cpu = r.cpu
    /\ GhostInit

NextDecimal == Tick \/ Reset \/ \E tp \in Kinds : Interrupt(tp)

SpecDecimal == InitDecimal /\ [][NextDecimal]_vars

----------------------------------------------------------------------------
(* C39 *)

DecimalRefused ==
    /\ last.call = "tick"
    /\ \/ last.instr = "Sed" /\ last.st \notin {"ok", "panic"}
       \/ last.instr \in {"Plp", "Rti"} /\ last.st = "panic"

----------------------------------------------------------------------------
(* C40 *)

\* the Oscillator tick before the last one ran a pass that its k-th
\* tickable halted with an error
HaltedBefore(k) ==
    /\ OscTicked
    /\ last2.call = "osc_tick"
    /\ last2.st # "ok"
    /\ k = Len(last2.val.ticked)

\* the number of ticks tickable i of osc has received
TicksOf(i) == osc.devices[i].ticks

\* C40: last_pass changes only in an Oscillator tick that ran a pass in
\* which every tickable succeeded; a pass halted by an error leaves it
\* unchanged, so the next Oscillator tick runs a pass again, starting with
\* the first tickable, and after it every tickable registered before the
\* one that failed has been ticked more often than every one registered
\* after it.
C40_Retry ==
    /\ OscTicked /\ osc.last_pass # prev.last_pass =>
            /\ Due
            /\ last.st = "ok"
            /\ last.val.ticked = Names(prev)
            /\ osc.last_pass = last.arg
    /\ OscTicked /\ last.st # "ok" => osc.last_pass = prev.last_pass
    /\ \A k \in 1..Len(osc.devices) :
          HaltedBefore(k) =>
            /\ Due
            /\ last.val.ticked # <<>>
            /\ last.val.ticked[1] = Names(prev)[1]
            /\ \A i \in 1..(k - 1) : \A j \in (k + 1)..Len(osc.devices) :
                  TicksOf(i) > TicksOf(j)

\* the second of three tickables halted the first pass; the retry, with
\* last_pass still at its first value, ticked all three: 2, 2 and 1 ticks
C40_Witness ==
    /\ HaltedBefore(2)
    /\ prev.last_pass = prev2.last_pass
    /\ last.st = "ok"
    /\ last.val.ticked = <<"cpu", "via", "acia">>
    /\ TicksOf(1) = 2 /\ TicksOf(2) = 2 /\ TicksOf(3) = 1
    /\ osc.last_pass = last.arg
    /\ osc.last_pass # prev.last_pass

====
